---- MODULE Spec2Model ----
(***************************************************************************)
(* Model of the sited-io/websites service: the domain verification engine  *)
(* (services/domain.rs, custom_hostnames.rs), the page service             *)
(* (services/page.rs), the website service (services/website.rs) and the   *)
(* list RPCs (services/mod.rs), over the repository layer (model/*.rs).    *)
(*                                                                         *)
(* A handler is a sequence of steps. A step ends at an await on the        *)
(* database or on a collaborator after which another request can change    *)
(* what the handler goes on to use, so that concurrent requests interleave *)
(* where the code can be suspended. Consecutive reads before the first     *)
(* write of a handler, and the get-then-create of ensure_static_page, are  *)
(* one step.                                                               *)
(***************************************************************************)
EXTENDS Integers, Sequences, FiniteSets, TLC

(***************************************************************************)
(* Bounds of the model.                                                    *)
(***************************************************************************)
MaxAnswers == 1        \* longest Answer array of a DNS response
MaxDomainRows == 3     \* domain rows ever inserted (the serial's last value)
MaxPageRows == 2       \* page rows ever inserted (the serial's last value)
MaxWebsites == 3       \* website ids ever generated
MaxPage == 2           \* largest PaginationRequest.page
MaxSize == 2           \* largest PaginationRequest.size
MaxChildren == 2       \* longest list of child records encoded into an array

(***************************************************************************)
(* Values.                                                                 *)
(***************************************************************************)
Users == {"u1", "u2"}
Workers == {"r1", "r2"}            \* concurrently handled RPC requests
DomainWorkers == {"r1"}            \* the worker that races with the sweep in SpecDomain
SeqWorkers == {"r1"}               \* one request at a time

Internal == "DOMAIN_STATUS_INTERNAL"
Pending == "DOMAIN_STATUS_PENDING"
Active == "DOMAIN_STATUS_ACTIVE"

FallbackDomain == "fallback.sited.io"   \* env FALLBACK_DOMAIN: DomainService.fallback_domain
MainDomain == "sited.io"                \* env MAIN_DOMAIN: the sweep's root, the suffix of platform subdomains
DomainNames == {"shop.example.com"}

CNAME == 5
A_RECORD == 1

MININUM_WEBSITE_NAME_LENGTH == 4
WebsiteNames == {"Acme", "Abc"}

HOME_PAGE_PATH == "/"
PAGE_TYPE_UNSPECIFIED == "PAGE_TYPE_UNSPECIFIED"
PAGE_TYPE_STATIC == "PAGE_TYPE_STATIC"
PageTitles == {"About"}
PagePaths == {"/contact"}

\* Option<T>
Some(x) == [is_some |-> TRUE, v |-> x]
NoneStr == [is_some |-> FALSE, v |-> ""]
NoneBool == [is_some |-> FALSE, v |-> FALSE]

\* gRPC status codes returned by the handlers
OK == "Ok"
InvalidArgument == "InvalidArgument"
NotFound == "NotFound"
AlreadyExists == "AlreadyExists"
FailedPrecondition == "FailedPrecondition"
InternalError == "Internal"
NoResult == "-"

(***************************************************************************)
(* DNS-over-HTTPS responses (cloudflare.rs DnsLookupResponse): the Answer  *)
(* array is optional; each answer has a name, a record type and data.      *)
(***************************************************************************)
IpData == <<"192.0.2.1", "192.0.2.2">>

AnswersFor(q) ==
    {[name |-> q, type |-> A_RECORD, data |-> IpData[i]] : i \in DOMAIN IpData}
        \cup {[name |-> q, type |-> CNAME, data |-> FallbackDomain]}

SeqsUpTo(S, n) == UNION {[1..k -> S] : k \in 0..n}

DnsLookupResponse(q) ==
    {[has_answer |-> FALSE, answer |-> <<>>]}
        \cup {[has_answer |-> TRUE, answer |-> s] : s \in SeqsUpTo(AnswersFor(q), MaxAnswers)}

\* Total order on answer data used by sort_unstable (String's Ord).
DataOrder == IpData \o <<FallbackDomain>>

DataRank(d) == CHOOSE i \in DOMAIN DataOrder : DataOrder[i] = d

(***************************************************************************)
(* HashSet<&String>: iteration order is arbitrary but fixed for one set.   *)
(***************************************************************************)
RECURSIVE IterOrder(_)
IterOrder(S) ==
    IF S = {} THEN <<>>
    ELSE LET x == CHOOSE y \in S : \A z \in S : DataRank(y) <= DataRank(z)
         IN <<x>> \o IterOrder(S \ {x})

AnswerData(r) ==
    IF r.has_answer THEN {r.answer[i].data : i \in DOMAIN r.answer} ELSE {}

\* HashSet::intersection iterates the smaller set and keeps what the other contains.
Intersection(a, b) ==
    IF Cardinality(a) <= Cardinality(b)
    THEN SelectSeq(IterOrder(a), LAMBDA x : x \in b)
    ELSE SelectSeq(IterOrder(b), LAMBDA x : x \in a)

\* services/domain.rs has_same_destination_ips: intersection(a, b).eq(a.iter())
has_same_destination_ips(a, b) ==
    LET a_ips == AnswerData(a)
        b_ips == AnswerData(b)
    IN Intersection(a_ips, b_ips) = IterOrder(a_ips)

\* The closure of has_cname_to_fallback
IsCnameToFallback(domain, a) ==
    a.name = domain /\ a.type = CNAME /\ a.data = FallbackDomain

\* answers.iter().find(..): the first matching answer, as an Option
Find(domain, answers) ==
    LET hits == {i \in DOMAIN answers : IsCnameToFallback(domain, answers[i])}
    IN IF hits = {} THEN [is_some |-> FALSE, at |-> 0]
       ELSE [is_some |-> TRUE, at |-> CHOOSE i \in hits : \A j \in hits : i <= j]

\* services/domain.rs has_cname_to_fallback: answer.map(|a| a.iter().find(..)).is_some()
\* is_some is applied to the outer Option, the one that says whether Answer is present.
has_cname_to_fallback(domain, r) ==
    LET mapped ==
          IF r.has_answer
          THEN [is_some |-> TRUE, inner |-> Find(domain, r.answer)]
          ELSE [is_some |-> FALSE, inner |-> [is_some |-> FALSE, at |-> 0]]
    IN mapped.is_some

\* custom_hostnames.rs fetch_ips: the data of every answer, in order; empty without Answer
fetch_ips(r) ==
    IF r.has_answer THEN [i \in DOMAIN r.answer |-> r.answer[i].data] ELSE <<>>

\* slice::sort_unstable on Vec<String>
RECURSIVE sort_unstable(_)
sort_unstable(s) ==
    IF s = <<>> THEN <<>>
    ELSE LET m == CHOOSE i \in DOMAIN s : \A j \in DOMAIN s : DataRank(s[i]) <= DataRank(s[j])
             rest == [k \in 1..(Len(s) - 1) |-> IF k < m THEN s[k] ELSE s[k + 1]]
         IN <<s[m]>> \o sort_unstable(rest)

(***************************************************************************)
(* State.                                                                  *)
(***************************************************************************)
VARIABLES
    websites,       \* table websites: set of rows
    domains,        \* table domains: set of rows
    nextDomainId,   \* the serial behind domains.domain_id
    provisioned,    \* per domain row: how often create_custom_hostname has succeeded
                    \* for it: "never", "once", "many"
    hostnames,      \* CDN: the names a custom hostname exists for
    dreq,           \* per worker: the domain RPC it is handling
    sweep,          \* the periodic job check_custom_domains
    pages,          \* table pages: set of rows
    nextPageId,     \* the serial behind pages.page_id
    staticPages,    \* table static_pages: set of rows
    preq,           \* per worker: the page RPC it is handling
    lreq,           \* per worker: the list RPC it has answered
    freq,           \* the aggregate column last decoded and what the decoder returned
    oidcApps,       \* identity provider: the domains an OIDC application exists for
    dnsRecords,     \* CDN: the names a DNS record exists for
    nextWebsite,    \* how many website ids have been generated
    wreq            \* per worker: the website RPC it is handling

domainVars == <<websites, domains, nextDomainId, provisioned, hostnames, dreq, sweep>>

pageVars == <<pages, nextPageId, staticPages, preq, lreq, freq>>

siteVars == <<oidcApps, dnsRecords, nextWebsite, wreq>>

vars == <<domainVars, pageVars, siteVars>>

NoDomain == [domain_id |-> 0, website_id |-> "", user_id |-> "", domain |-> "", status |-> ""]

\* What a check saw: whether it decided to activate, and the two conditions of the
\* transition rule evaluated on the DNS answers of that check.
\* empty: neither lookup of the check returned an address.
NoObs ==
    [made |-> FALSE, activate |-> FALSE, cname |-> FALSE, same_ips |-> FALSE,
     empty |-> FALSE]

IdleRequest ==
    [op |-> "idle", pc |-> "idle", user_id |-> "", input |-> "", website_id |-> "",
     domain |-> NoDomain, obs |-> NoObs, zero_rows |-> FALSE, in_use |-> FALSE,
     checked |-> "no", failed |-> FALSE, res |-> NoResult]

\* domains[1..i-1] have been checked, domains[i] is being checked; after a run the
\* record keeps what the run listed, how far it came and whether it ended in an error.
IdleSweep ==
    [pc |-> "idle", domains |-> <<>>, i |-> 0, root_ips |-> <<>>,
     obs |-> NoObs, failed |-> FALSE]

\* WebsiteService::build_main_domain
build_main_domain(website_id) == website_id \o "." \o MainDomain

(***************************************************************************)
(* Repository layer: model/domain.rs.                                      *)
(***************************************************************************)
\* Domain::get_for_user: WHERE domain_id = .. AND user_id = ..
Domain_get_for_user(domain_id, user_id) ==
    {d \in domains : d.domain_id = domain_id /\ d.user_id = user_id}

\* Domain::get_by_domain_and_status: WHERE domain = .. AND status = ..
Domain_get_by_domain_and_status(domain, status) ==
    {d \in domains : d.domain = domain /\ d.status = status}

\* Domain::list_by_status: WHERE status = ..
Domain_list_by_status(status) == {d \in domains : d.status = status}

\* The rows matched by the WHERE clause of Domain::update and Domain::delete.
Domain_where(domain_id, website_id, user_id) ==
    {d \in domains : d.domain_id = domain_id /\ d.website_id = website_id
                     /\ d.user_id = user_id}

\* Schema (migrations): the unique constraint on the name of an active domain.
ViolatesUniqueActiveDomain(row, status) ==
    /\ status = Active
    /\ \E d \in domains : d.domain_id # row.domain_id /\ d.domain = row.domain
                          /\ d.status = Active

\* Schema (migrations): the foreign key from domains to websites. An insert for a
\* website that does not exist is refused; From<DbError> answers FailedPrecondition.
ViolatesWebsiteForeignKey(website_id) == \A x \in websites : x.website_id # website_id

\* Schema (migrations): deleting a website deletes the rows that refer to it.
CascadeDomains(deleted) == {d \in domains : \A x \in deleted : d.website_id # x.website_id}

\* An UPDATE that has lost its WHERE clause.
Domain_update_without_where(domain_id, website_id, user_id, status) ==
    {[d EXCEPT !.status = status] : d \in domains}

\* Domain::update: UPDATE domains SET status = .. WHERE .. RETURNING *
Domain_update(domain_id, website_id, user_id, status) ==
    {IF d \in Domain_where(domain_id, website_id, user_id)
     THEN [d EXCEPT !.status = status] ELSE d : d \in domains}

\* Domain::get_for_website: WHERE domain = .. AND website_id = ..
Domain_get_for_website(domain, website_id) ==
    {d \in domains : d.domain = domain /\ d.website_id = website_id}

\* The rows matched by the WHERE clause of Domain::delete_for_website.
Domain_where_website(website_id, user_id) ==
    {d \in domains : d.website_id = website_id /\ d.user_id = user_id}

\* Website::get(..).is_some_and(|w| w.user_id == user_id)
WebsiteOwnedBy(website_id, user_id) ==
    \E w \in websites : w.website_id = website_id /\ w.user_id = user_id

\* All orders in which a query without ORDER BY can return the rows S.
Orderings(S) ==
    {s \in [1..Cardinality(S) -> S] : \A i, j \in DOMAIN s : i # j => s[i] # s[j]}

(***************************************************************************)
(* services/domain.rs: validate_domain, on the inputs of the model.        *)
(*   has_dot: input.contains('.'); uri_ok: input.parse::<Uri>() succeeds;  *)
(*   host: parsed.host().                                                  *)
(***************************************************************************)
DomainInputs == DomainNames \cup {"localhost", "https://shop.example.com", "shop example.com"}

UriFacts(input) ==
    CASE input = "localhost" ->
            [has_dot |-> FALSE, uri_ok |-> TRUE, has_host |-> TRUE, host |-> "localhost"]
      [] input = "https://shop.example.com" ->
            [has_dot |-> TRUE, uri_ok |-> TRUE, has_host |-> TRUE, host |-> "shop.example.com"]
      [] input = "shop example.com" ->
            [has_dot |-> TRUE, uri_ok |-> FALSE, has_host |-> FALSE, host |-> ""]
      [] OTHER ->
            [has_dot |-> TRUE, uri_ok |-> TRUE, has_host |-> TRUE, host |-> input]

validate_domain(input) ==
    LET f == UriFacts(input)
    IN IF ~f.has_dot THEN InvalidArgument
       ELSE IF ~f.uri_ok THEN InvalidArgument
       ELSE IF ~f.has_host THEN InvalidArgument
       ELSE IF f.host # input THEN InvalidArgument
       ELSE OK

\* The handler returns: the record keeps the status code, the row of the response and
\* what the request observed.
Finish(r, res) ==
    [r EXCEPT !.pc = "done", !.res = res, !.user_id = "", !.input = "", !.website_id = ""]

CanStart(w) == dreq[w].pc \in {"idle", "done"}

\* Status::invalid_argument("Domain is already in use")
DomainInUse(r) == Finish([r EXCEPT !.in_use = TRUE], InvalidArgument)

\* A call to a collaborator (DNS resolver, CDN) returns Err: the handler maps it with
\* Status::internal and leaves through `?`.
CollaboratorFailed_as_ok(r) == Finish([r EXCEPT !.failed = TRUE], OK)

CollaboratorFailed(r) == Finish([r EXCEPT !.failed = TRUE], InternalError)

(***************************************************************************)
(* services/domain.rs: create_domain.                                      *)
(***************************************************************************)
\* Requests that have passed their checks and are about to insert a domain row.
PendingInserts ==
    Cardinality({x \in Workers : dreq[x].pc = "insert"})
        + Cardinality({x \in Workers : wreq[x].pc = "domain_insert"})

create_domain_check(w) ==
    /\ CanStart(w)
    /\ nextDomainId + PendingInserts <= MaxDomainRows
    /\ \E user_id \in Users, website_id \in {x.website_id : x \in websites},
          input \in DomainInputs :
          LET r == [IdleRequest EXCEPT !.op = "create_domain", !.user_id = user_id,
                                       !.website_id = website_id, !.input = input]
          IN dreq' = [dreq EXCEPT ![w] =
                 IF validate_domain(input) # OK THEN Finish(r, InvalidArgument)
                 ELSE IF ~WebsiteOwnedBy(website_id, user_id)
                      THEN Finish(r, InvalidArgument)
                 ELSE IF Domain_get_by_domain_and_status(input, Active) # {}
                      THEN DomainInUse(r)
                 ELSE [r EXCEPT !.pc = "insert"]]
    /\ UNCHANGED <<websites, domains, nextDomainId, provisioned, hostnames, sweep>>
    /\ UNCHANGED <<pageVars, siteVars>>

\* Domain::create with status Pending
create_domain_insert(w) ==
    LET r == dreq[w]
        row == [domain_id |-> nextDomainId, website_id |-> r.website_id,
                user_id |-> r.user_id, domain |-> r.input, status |-> Pending]
    IN /\ r.op = "create_domain" /\ r.pc = "insert"
       /\ IF ViolatesWebsiteForeignKey(r.website_id)
          THEN /\ dreq' = [dreq EXCEPT ![w] = Finish(r, FailedPrecondition)]
               /\ UNCHANGED <<domains, nextDomainId, provisioned>>
          ELSE /\ domains' = domains \cup {row}
               /\ nextDomainId' = nextDomainId + 1
               /\ provisioned' = provisioned @@ (nextDomainId :> "never")
               /\ dreq' = [dreq EXCEPT ![w] = Finish([r EXCEPT !.domain = row], OK)]
       /\ UNCHANGED <<websites, hostnames, sweep>>
       /\ UNCHANGED <<pageVars, siteVars>>

(***************************************************************************)
(* services/domain.rs: check_domain_status.                                *)
(***************************************************************************)
\* The transition rule as the specification states it, on the answers of one check:
\* (a) a CNAME answer whose target is the fallback domain, (b) equal address sets.
RuleCname(dl) ==
    dl.has_answer /\ \E i \in DOMAIN dl.answer :
        dl.answer[i].type = CNAME /\ dl.answer[i].data = FallbackDomain

RuleSameIps(dl, fl) == AnswerData(dl) = AnswerData(fl)

RuleEmpty(dl, fl) == AnswerData(dl) = {} /\ AnswerData(fl) = {}

Observe(activate, dl, fl) ==
    [made |-> TRUE, activate |-> activate, cname |-> RuleCname(dl),
     same_ips |-> RuleSameIps(dl, fl), empty |-> RuleEmpty(dl, fl)]

\* if domain.status == DomainStatus::Pending
NeedsCheck_not_internal(domain) == domain.status # Internal

NeedsCheck(domain) == domain.status = Pending

\* Domain::get_for_user and the test of the row's status
check_domain_status_get(w) ==
    /\ CanStart(w)
    /\ \E user_id \in Users, domain_id \in 1..(nextDomainId - 1) :
          LET r == [IdleRequest EXCEPT !.op = "check_domain_status", !.user_id = user_id]
              found == Domain_get_for_user(domain_id, user_id)
          IN dreq' = [dreq EXCEPT ![w] =
                 IF found = {} THEN Finish(r, InvalidArgument)
                 ELSE LET domain == CHOOSE d \in found : TRUE
                      IN IF NeedsCheck(domain)
                         THEN [r EXCEPT !.pc = "dns_lookup", !.domain = domain]
                         ELSE Finish([r EXCEPT !.domain = domain], OK)]
    /\ UNCHANGED <<websites, domains, nextDomainId, provisioned, hostnames, sweep>>
    /\ UNCHANGED <<pageVars, siteVars>>

\* The decision of check_domain_status on the answers dl (candidate) and fl (fallback).
points_to_fallback(domain, dl, fl) ==
    IF has_cname_to_fallback(domain, dl) THEN TRUE
    ELSE has_same_destination_ips(fl, dl)

\* dns_lookup(domain), has_cname_to_fallback, dns_lookup(fallback_domain),
\* has_same_destination_ips. fl is what the resolver answers for the fallback domain
\* at the time of the check; the code fetches it only when the CNAME test fails.
check_domain_status_dns_lookup(w) ==
    LET r == dreq[w]
    IN /\ r.op = "check_domain_status" /\ r.pc = "dns_lookup"
       /\ \/ dreq' = [dreq EXCEPT ![w] = CollaboratorFailed(r)]
          \/ \E dl \in DnsLookupResponse(r.domain.domain) :
                /\ ~has_cname_to_fallback(r.domain.domain, dl)
                /\ dreq' = [dreq EXCEPT ![w] = CollaboratorFailed(r)]
          \/ \E dl \in DnsLookupResponse(r.domain.domain),
                fl \in DnsLookupResponse(FallbackDomain) :
                dreq' = [dreq EXCEPT ![w] =
                    [r EXCEPT !.pc = "decided",
                              !.obs = Observe(points_to_fallback(r.domain.domain, dl, fl),
                                              dl, fl)]]
       /\ UNCHANGED <<websites, domains, nextDomainId, provisioned, hostnames, sweep>>
       /\ UNCHANGED <<pageVars, siteVars>>

\* if points_to_fallback { .. } else the row is returned as it was read
check_domain_status_decided(w) ==
    LET r == dreq[w]
        next == [r EXCEPT !.obs = NoObs,
                          !.checked = IF r.obs.cname \/ r.obs.same_ips
                                      THEN "rule_held" ELSE "rule_failed"]
    IN /\ r.op = "check_domain_status" /\ r.pc = "decided"
       /\ dreq' = [dreq EXCEPT ![w] =
              IF r.obs.activate THEN [next EXCEPT !.pc = "provision"]
              ELSE Finish(next, OK)]
       /\ UNCHANGED <<websites, domains, nextDomainId, provisioned, hostnames, sweep>>
       /\ UNCHANGED <<pageVars, siteVars>>

\* An activation that does not call create_custom_hostname.
CreateCustomHostname_not_called(row) == UNCHANGED <<provisioned, hostnames>>

\* CloudflareService::create_custom_hostname succeeds for the row `row`
CreateCustomHostname(row) ==
    /\ provisioned' = [provisioned EXCEPT ![row.domain_id] = IF @ = "never" THEN "once" ELSE "many"]
    /\ hostnames' = hostnames \cup {row.domain}

check_domain_status_provision(w) ==
    LET r == dreq[w]
    IN /\ r.op = "check_domain_status" /\ r.pc = "provision"
       /\ \/ /\ CreateCustomHostname(r.domain)
             /\ dreq' = [dreq EXCEPT ![w].pc = "update"]
          \/ /\ dreq' = [dreq EXCEPT ![w] = CollaboratorFailed(r)]
             /\ UNCHANGED <<provisioned, hostnames>>
       /\ UNCHANGED <<websites, domains, nextDomainId, sweep>>
       /\ UNCHANGED <<pageVars, siteVars>>

\* Domain::update(.., Active) on a table without the unique constraint.
UpdateActiveResult_without_unique(row) ==
    IF Domain_where(row.domain_id, row.website_id, row.user_id) = {} THEN InternalError
    ELSE OK

\* The result of Domain::update(.., Active) as a status code: query_one fails on zero
\* rows (not a database error: Internal), a unique violation is AlreadyExists.
UpdateActiveResult(row) ==
    IF Domain_where(row.domain_id, row.website_id, row.user_id) = {} THEN InternalError
    ELSE IF ViolatesUniqueActiveDomain(row, Active) THEN AlreadyExists
    ELSE OK

check_domain_status_update(w) ==
    LET r == dreq[w]
        row == r.domain
        res == UpdateActiveResult(row)
    IN /\ r.op = "check_domain_status" /\ r.pc = "update"
       /\ domains' = IF res = OK
                     THEN Domain_update(row.domain_id, row.website_id, row.user_id, Active)
                     ELSE domains
       /\ dreq' = [dreq EXCEPT ![w] =
              Finish([r EXCEPT !.zero_rows =
                          (Domain_where(row.domain_id, row.website_id, row.user_id) = {}),
                        !.domain = IF res = OK THEN [row EXCEPT !.status = Active] ELSE row],
                     res)]
       /\ UNCHANGED <<websites, nextDomainId, provisioned, hostnames, sweep>>
       /\ UNCHANGED <<pageVars, siteVars>>

(***************************************************************************)
(* services/domain.rs: delete_domain.                                      *)
(***************************************************************************)
\* if found_domain.status != DomainStatus::Internal
delete_domain_allowed_always(found_domain) == TRUE

delete_domain_allowed(found_domain) == found_domain.status # Internal

delete_domain_get(w) ==
    /\ CanStart(w)
    /\ \E user_id \in Users, domain_id \in 1..(nextDomainId - 1) :
          LET r == [IdleRequest EXCEPT !.op = "delete_domain", !.user_id = user_id]
              found == Domain_get_for_user(domain_id, user_id)
          IN dreq' = [dreq EXCEPT ![w] =
                 IF found = {} THEN Finish(r, InvalidArgument)
                 ELSE LET found_domain == CHOOSE d \in found : TRUE
                      IN IF delete_domain_allowed(found_domain)
                         THEN [r EXCEPT !.pc = "custom_hostnames", !.domain = found_domain]
                         ELSE Finish([r EXCEPT !.domain = found_domain], InvalidArgument)]
    /\ UNCHANGED <<websites, domains, nextDomainId, provisioned, hostnames, sweep>>
    /\ UNCHANGED <<pageVars, siteVars>>

\* list_custom_hostnames, then delete_custom_hostname for each listed one: either call
\* can fail, and then the row is not deleted. delete_custom_hostname returns Err only
\* when send() does: an answer with an HTTP error status is Ok(()), the custom
\* hostname stays and the handler goes on.
delete_domain_custom_hostnames(w) ==
    LET r == dreq[w]
    IN /\ r.op = "delete_domain" /\ r.pc = "custom_hostnames"
       /\ \/ /\ dreq' = [dreq EXCEPT ![w] = Finish(r, InternalError)]
             /\ UNCHANGED hostnames
          \/ /\ hostnames' = hostnames \ {r.domain.domain}
             /\ dreq' = [dreq EXCEPT ![w].pc = "delete"]
          \/ /\ r.domain.domain \in hostnames
             /\ UNCHANGED hostnames
             /\ dreq' = [dreq EXCEPT ![w].pc = "delete"]
       /\ UNCHANGED <<websites, domains, nextDomainId, provisioned, sweep>>
       /\ UNCHANGED <<pageVars, siteVars>>

\* Domain::delete: conn.query of a DELETE; zero matched rows is not an error
delete_domain_delete(w) ==
    LET r == dreq[w]
        matched == Domain_where(r.domain.domain_id, r.domain.website_id, r.user_id)
    IN /\ r.op = "delete_domain" /\ r.pc = "delete"
       /\ domains' = domains \ matched
       /\ dreq' = [dreq EXCEPT ![w] = Finish([r EXCEPT !.zero_rows = (matched = {})], OK)]
       /\ UNCHANGED <<websites, nextDomainId, provisioned, hostnames, sweep>>
       /\ UNCHANGED <<pageVars, siteVars>>

(***************************************************************************)
(* custom_hostnames.rs: check_custom_domains, one run of the periodic job. *)
(***************************************************************************)
\* The loop moves on to domain i, or the run ends.
SweepAt(sw, i) ==
    IF i > Len(sw.domains) THEN [sw EXCEPT !.pc = "ended", !.i = i, !.root_ips = <<>>]
    ELSE [sw EXCEPT !.pc = "fetch_ips", !.i = i]

\* An error leaves check_custom_domains through `?`; the job logs it.
SweepAbort(sw) == [sw EXCEPT !.pc = "ended", !.failed = TRUE, !.root_ips = <<>>]

\* Domain::list_by_status(Pending) and fetch_ips(main_domain)
check_custom_domains_start ==
    /\ sweep.pc = "idle"
    /\ \E listed \in Orderings(Domain_list_by_status(Pending)) :
          LET sw == [IdleSweep EXCEPT !.domains = listed]
          IN \/ sweep' = SweepAbort(sw)
             \/ \E root \in DnsLookupResponse(MainDomain) :
                   sweep' = SweepAt([sw EXCEPT !.root_ips = sort_unstable(fetch_ips(root))], 1)
    /\ UNCHANGED <<websites, domains, nextDomainId, provisioned, hostnames, dreq>>
    /\ UNCHANGED <<pageVars, siteVars>>

\* The decision of check_custom_domains on the answers dl of the candidate:
\* domain_ips.sort_unstable(); root_ips == domain_ips
root_ips_equal(root_ips, dl) == root_ips = sort_unstable(fetch_ips(dl))

\* fetch_ips(domain), sort_unstable and the comparison with root_ips
check_custom_domains_fetch_ips ==
    LET domain == sweep.domains[sweep.i]
        sw == sweep
    IN /\ sweep.pc = "fetch_ips"
       /\ \/ sweep' = SweepAbort(sw)
          \/ \E dl \in DnsLookupResponse(domain.domain) :
                LET activate == root_ips_equal(sw.root_ips, dl)
                    seen == [sw EXCEPT !.obs =
                               [made |-> TRUE, activate |-> activate,
                                cname |-> RuleCname(dl),
                                same_ips |-> AnswerData(dl) =
                                    {sw.root_ips[k] : k \in DOMAIN sw.root_ips},
                                empty |-> AnswerData(dl) = {} /\ sw.root_ips = <<>>]]
                IN sweep' = [seen EXCEPT !.pc = "decided"]
       /\ UNCHANGED <<websites, domains, nextDomainId, provisioned, hostnames, dreq>>
       /\ UNCHANGED <<pageVars, siteVars>>

\* if root_ips == domain_ips { .. } else the loop moves on
check_custom_domains_decided ==
    LET next == [sweep EXCEPT !.obs = NoObs]
    IN /\ sweep.pc = "decided"
       /\ sweep' = IF sweep.obs.activate THEN [next EXCEPT !.pc = "provision"]
                   ELSE SweepAt(next, sweep.i + 1)
       /\ UNCHANGED <<websites, domains, nextDomainId, provisioned, hostnames, dreq>>
       /\ UNCHANGED <<pageVars, siteVars>>

check_custom_domains_provision ==
    /\ sweep.pc = "provision"
    /\ \/ /\ CreateCustomHostname(sweep.domains[sweep.i])
          /\ sweep' = [sweep EXCEPT !.pc = "update"]
       \/ /\ sweep' = SweepAbort(sweep)
          /\ UNCHANGED <<provisioned, hostnames>>
    /\ UNCHANGED <<websites, domains, nextDomainId, dreq>>
    /\ UNCHANGED <<pageVars, siteVars>>

check_custom_domains_update ==
    LET row == sweep.domains[sweep.i]
        res == UpdateActiveResult(row)
    IN /\ sweep.pc = "update"
       /\ domains' = IF res = OK
                     THEN Domain_update(row.domain_id, row.website_id, row.user_id, Active)
                     ELSE domains
       /\ sweep' = IF res = OK THEN SweepAt(sweep, sweep.i + 1) ELSE SweepAbort(sweep)
       /\ UNCHANGED <<websites, nextDomainId, provisioned, hostnames, dreq>>
       /\ UNCHANGED <<pageVars, siteVars>>

\* run_custom_hostnames_check: the job's future resolves, an error is logged
run_custom_hostnames_check_end ==
    /\ sweep.pc = "ended"
    /\ sweep' = IdleSweep
    /\ UNCHANGED <<websites, domains, nextDomainId, provisioned, hostnames, dreq>>
    /\ UNCHANGED <<pageVars, siteVars>>

(***************************************************************************)
(* Repository layer: model/page.rs, model/static_page.rs, model/webiste.rs.*)
(***************************************************************************)
\* Website::get_for_user: WHERE website_id = .. AND user_id = ..
Website_get_for_user(website_id, user_id) ==
    {x \in websites : x.website_id = website_id /\ x.user_id = user_id}

\* Website::get_by_name(name, Some(user_id)): WHERE name = .. AND user_id = ..
Website_get_by_name(name, user_id) ==
    {x \in websites : x.name = name /\ x.user_id = user_id}

\* Schema (migrations): the unique constraint on a website's name scoped to its owner.
ViolatesUniqueWebsiteName(name, user_id) ==
    \E x \in websites : x.name = name /\ x.user_id = user_id

\* Page::get: WHERE page_id = ..
Page_get(page_id) == {p \in pages : p.page_id = page_id}

\* Page::get_home_page: WHERE website_id = .. AND is_home_page = true
Page_get_home_page(website_id) ==
    {p \in pages : p.website_id = website_id /\ p.is_home_page}

\* The rows matched by the WHERE clause of Page::update and Page::delete.
Page_where(page_id, user_id) ==
    {p \in pages : p.page_id = page_id /\ p.user_id = user_id}

\* Page::update: only the columns given as Some(..) are set.
Page_update(page_id, user_id, is_home_page, path) ==
    {IF p \in Page_where(page_id, user_id)
     THEN [p EXCEPT !.is_home_page = IF is_home_page.is_some THEN is_home_page.v ELSE @,
                    !.path = IF path.is_some THEN path.v ELSE @]
     ELSE p : p \in pages}

\* StaticPage::get: WHERE page_id = ..
StaticPage_get(page_id) == {x \in staticPages : x.page_id = page_id}

\* The rows matched by the WHERE clause of StaticPage::delete.
StaticPage_where(page_id, user_id) ==
    {x \in staticPages : x.page_id = page_id /\ x.user_id = user_id}

(***************************************************************************)
(* services/page.rs.                                                       *)
(***************************************************************************)
\* slugify, on the titles of the model
Slugify(title) ==
    CASE title = "About" -> "about"
      [] title = "Home" -> "home"
      [] OTHER -> ""

get_slugified_path(title) == "/" \o Slugify(title)

\* PageType::try_from and the rejection of Unspecified
page_type_from_request(page_type) ==
    IF page_type = PAGE_TYPE_STATIC THEN OK ELSE InvalidArgument

IdlePage ==
    [op |-> "idle", pc |-> "idle", user_id |-> "", website_id |-> "", page_id |-> 0,
     page_type |-> NoneStr, title |-> "", is_home_page |-> NoneBool, path |-> NoneStr,
     current_home_page |-> 0, current_home_title |-> "", had_home |-> FALSE, zero_rows |-> FALSE, res |-> NoResult]

\* The handler returns: the record keeps the status code and what the request observed
\* (whether it set is_home_page = true, had_home, zero_rows). had_home: the request sets
\* is_home_page = true and its website had exactly one home page, at "/", when it began.
FinishPage(r, res) ==
    [r EXCEPT !.op = "idle", !.pc = "done", !.res = res, !.user_id = "",
              !.website_id = IF r.had_home THEN @ ELSE "",
              !.page_id = 0, !.page_type = NoneStr, !.title = "", !.path = NoneStr,
              !.is_home_page = IF @ = Some(TRUE) THEN @ ELSE NoneBool,
              !.current_home_page = 0, !.current_home_title = ""]

PageCanStart(w) == preq[w].pc \in {"idle", "done"}

\* Exactly one page of the website is the home page, and its path is "/".
ExactlyOneHomeAtRoot(website_id) ==
    /\ Cardinality(Page_get_home_page(website_id)) = 1
    /\ \A p \in Page_get_home_page(website_id) : p.path = HOME_PAGE_PATH

\* The website of page page_id, "" if there is no such page.
WebsiteOfPage(page_id) ==
    IF Page_get(page_id) = {} THEN ""
    ELSE (CHOOSE p \in Page_get(page_id) : TRUE).website_id

\* create_page: page_type_from_request, the path, Website::get_for_user
create_page_start(w) ==
    /\ PageCanStart(w)
    /\ nextPageId + Cardinality({x \in Workers : preq[x].op = "create_page"
                                    /\ preq[x].pc \in {"get_home_page", "demote", "insert"}})
          <= MaxPageRows
    /\ \E user_id \in Users, website_id \in {x.website_id : x \in websites},
          page_type \in {PAGE_TYPE_STATIC, PAGE_TYPE_UNSPECIFIED}, title \in PageTitles,
          is_home_page \in BOOLEAN, path \in {NoneStr} :
          LET r == [IdlePage EXCEPT
                       !.op = "create_page", !.user_id = user_id,
                       !.website_id = website_id, !.page_type = Some(page_type),
                       !.title = title, !.is_home_page = Some(is_home_page),
                       !.path = Some(IF path.is_some THEN path.v
                                     ELSE get_slugified_path(title)),
                       !.had_home = (is_home_page /\ ExactlyOneHomeAtRoot(website_id))]
          IN preq' = [preq EXCEPT ![w] =
                 IF page_type_from_request(page_type) # OK THEN FinishPage(r, InvalidArgument)
                 ELSE IF Website_get_for_user(website_id, user_id) = {}
                      THEN FinishPage(r, NotFound)
                 ELSE IF is_home_page THEN [r EXCEPT !.pc = "get_home_page"]
                 ELSE [r EXCEPT !.pc = "insert"]]
    /\ UNCHANGED <<pages, nextPageId, staticPages>>
    /\ UNCHANGED <<domainVars, siteVars, lreq, freq>>

\* After make_current_home_page_not_home_page: path = HOME_PAGE_PATH, then the write.
AfterDemotion(r) ==
    [r EXCEPT !.pc = IF r.op = "create_page" THEN "insert" ELSE "update",
              !.path = Some(HOME_PAGE_PATH), !.current_home_page = 0,
              !.current_home_title = ""]

\* make_current_home_page_not_home_page: Page::get_home_page (query_opt: more than one
\* row is an error)
make_current_home_page_not_home_page_get(w) ==
    LET r == preq[w]
        found == Page_get_home_page(r.website_id)
    IN /\ r.pc = "get_home_page"
       /\ preq' = [preq EXCEPT ![w] =
              IF Cardinality(found) > 1 THEN FinishPage(r, InternalError)
              ELSE IF found = {} THEN AfterDemotion(r)
              ELSE [r EXCEPT !.pc = "demote",
                             !.current_home_page = (CHOOSE p \in found : TRUE).page_id,
                             !.current_home_title = (CHOOSE p \in found : TRUE).title]]
       /\ UNCHANGED <<pages, nextPageId, staticPages>>
       /\ UNCHANGED <<domainVars, siteVars, lreq, freq>>

\* make_current_home_page_not_home_page: Page::update(current_home_page.page_id, user_id,
\* is_home_page = Some(false), path = Some(get_slugified_path(title)))
make_current_home_page_not_home_page_update(w) ==
    LET r == preq[w]
        matched == Page_where(r.current_home_page, r.user_id)
    IN /\ r.pc = "demote"
       /\ IF matched = {}
          THEN /\ preq' = [preq EXCEPT ![w] =
                      FinishPage([r EXCEPT !.zero_rows = TRUE], InternalError)]
               /\ UNCHANGED pages
          ELSE /\ pages' = Page_update(r.current_home_page, r.user_id, Some(FALSE),
                                       Some(get_slugified_path(r.current_home_title)))
               /\ preq' = [preq EXCEPT ![w] = AfterDemotion(r)]
       /\ UNCHANGED <<nextPageId, staticPages>>
       /\ UNCHANGED <<domainVars, siteVars, lreq, freq>>

\* After the write: ensure_static_page if the page type is Static
AfterWrite(r, page_id) ==
    IF r.page_type.is_some /\ r.page_type.v = PAGE_TYPE_STATIC
    THEN [r EXCEPT !.pc = "ensure_static_page", !.page_id = page_id]
    ELSE FinishPage(r, OK)

\* create_page: Page::create
create_page_insert(w) ==
    LET r == preq[w]
        row == [page_id |-> nextPageId, website_id |-> r.website_id, user_id |-> r.user_id,
                title |-> r.title, is_home_page |-> r.is_home_page.v, path |-> r.path.v]
    IN /\ r.op = "create_page" /\ r.pc = "insert"
       /\ pages' = pages \cup {row}
       /\ nextPageId' = nextPageId + 1
       /\ preq' = [preq EXCEPT ![w] = AfterWrite([r EXCEPT !.website_id = row.website_id],
                                                 row.page_id)]
       /\ UNCHANGED staticPages
       /\ UNCHANGED <<domainVars, siteVars, lreq, freq>>

\* ensure_static_page: StaticPage::get, and StaticPage::create if there is none
ensure_static_page(w) ==
    LET r == preq[w]
    IN /\ r.pc = "ensure_static_page"
       /\ staticPages' = IF StaticPage_get(r.page_id) = {}
                         THEN staticPages \cup {[page_id |-> r.page_id, user_id |-> r.user_id]}
                         ELSE staticPages
       /\ preq' = [preq EXCEPT ![w] = FinishPage(r, OK)]
       /\ UNCHANGED <<pages, nextPageId>>
       /\ UNCHANGED <<domainVars, siteVars, lreq, freq>>

\* update_page: page_type_from_request, then Page::update (query_one: zero rows is an
\* error that is not a database error, so the status is Internal)
update_page_write(w, r) ==
    LET matched == Page_where(r.page_id, r.user_id)
    IN IF r.page_type.is_some /\ page_type_from_request(r.page_type.v) # OK
       THEN /\ preq' = [preq EXCEPT ![w] = FinishPage(r, InvalidArgument)]
            /\ UNCHANGED pages
       ELSE IF matched = {}
       THEN /\ preq' = [preq EXCEPT ![w] =
                   FinishPage([r EXCEPT !.zero_rows = TRUE], InternalError)]
            /\ UNCHANGED pages
       ELSE /\ pages' = Page_update(r.page_id, r.user_id, r.is_home_page, r.path)
            /\ preq' = [preq EXCEPT ![w] = AfterWrite(r, r.page_id)]

\* update_page on a request that sets at least one column. With is_home_page =
\* Some(true): Page::get, and the demotion of the current home page comes before the
\* write; otherwise the write is the first statement.
update_page_start(w) ==
    /\ PageCanStart(w)
    /\ \E user_id \in Users, page_id \in 1..(nextPageId - 1),
          page_type \in {NoneStr, Some(PAGE_TYPE_UNSPECIFIED)},
          is_home_page \in {NoneBool, Some(TRUE), Some(FALSE)},
          path \in {NoneStr} \cup {Some(x) : x \in PagePaths} :
          LET r == [IdlePage EXCEPT
                       !.op = "update_page", !.user_id = user_id, !.page_id = page_id,
                       !.page_type = page_type, !.is_home_page = is_home_page,
                       !.path = path,
                       !.had_home = (is_home_page = Some(TRUE)
                                       /\ ExactlyOneHomeAtRoot(WebsiteOfPage(page_id)))]
              found_page == Page_get(page_id)
          IN /\ page_type.is_some \/ is_home_page.is_some \/ path.is_some
             /\ IF is_home_page = Some(TRUE)
                THEN /\ preq' = [preq EXCEPT ![w] =
                            IF found_page = {} THEN FinishPage(r, NotFound)
                            ELSE [r EXCEPT !.pc = "get_home_page",
                                           !.path = Some(HOME_PAGE_PATH),
                                           !.website_id =
                                               (CHOOSE p \in found_page : TRUE).website_id]]
                     /\ UNCHANGED pages
                ELSE update_page_write(w, r)
    /\ UNCHANGED <<nextPageId, staticPages>>
    /\ UNCHANGED <<domainVars, siteVars, lreq, freq>>

\* update_page after the demotion: the write
update_page_update(w) ==
    /\ preq[w].op = "update_page" /\ preq[w].pc = "update"
    /\ update_page_write(w, preq[w])
    /\ UNCHANGED <<nextPageId, staticPages>>
    /\ UNCHANGED <<domainVars, siteVars, lreq, freq>>

\* delete_page: Page::get and the test of the path
delete_page_get(w) ==
    /\ PageCanStart(w)
    /\ \E user_id \in Users, page_id \in 1..(nextPageId - 1) :
          LET r == [IdlePage EXCEPT !.op = "delete_page", !.user_id = user_id,
                                    !.page_id = page_id]
              found == Page_get(page_id)
          IN preq' = [preq EXCEPT ![w] =
                 IF found = {} THEN FinishPage(r, NotFound)
                 ELSE IF (CHOOSE p \in found : TRUE).path = HOME_PAGE_PATH
                      THEN FinishPage(r, InvalidArgument)
                 ELSE [r EXCEPT !.pc = "delete_static_page"]]
    /\ UNCHANGED <<pages, nextPageId, staticPages>>
    /\ UNCHANGED <<domainVars, siteVars, lreq, freq>>

\* delete_page: StaticPage::delete (conn.query: zero matched rows is not an error)
delete_page_static_page(w) ==
    LET r == preq[w]
        matched == StaticPage_where(r.page_id, r.user_id)
    IN /\ r.op = "delete_page" /\ r.pc = "delete_static_page"
       /\ staticPages' = staticPages \ matched
       /\ preq' = [preq EXCEPT ![w].pc = "delete_page", ![w].zero_rows = (matched = {})]
       /\ UNCHANGED <<pages, nextPageId>>
       /\ UNCHANGED <<domainVars, siteVars, lreq, freq>>

\* delete_page: Page::delete (conn.query: zero matched rows is not an error)
delete_page_page(w) ==
    LET r == preq[w]
        matched == Page_where(r.page_id, r.user_id)
    IN /\ r.op = "delete_page" /\ r.pc = "delete_page"
       /\ pages' = pages \ matched
       /\ preq' = [preq EXCEPT ![w] = FinishPage([r EXCEPT !.zero_rows = (@ \/ matched = {})], OK)]
       /\ UNCHANGED <<nextPageId, staticPages>>
       /\ UNCHANGED <<domainVars, siteVars, lreq, freq>>

(***************************************************************************)
(* services/website.rs: create_website.                                    *)
(***************************************************************************)
\* generate_website_id: a nanoid; the model takes the ids w1, w2, .. in turn, so two
\* generated ids never collide.
generate_website_id(n) == "w" \o ToString(n)

\* input, found, listed: the domain name of the request, the row and the rows it read.
\* owner, in_use, invalid, internal, zero_rows record what was true of the request's
\* target when it was read.
IdleSite ==
    [op |-> "idle", pc |-> "idle", user_id |-> "", name |-> "", website_id |-> "",
     dup |-> FALSE, input |-> "", found |-> NoDomain, listed |-> {}, owner |-> FALSE,
     in_use |-> FALSE, invalid |-> FALSE, internal |-> FALSE, zero_rows |-> FALSE,
     res |-> NoResult]

\* The handler returns: the record keeps the status code and what the request
\* observed, and drops the rows it had read.
FinishSite(r, res) ==
    [r EXCEPT !.pc = "done", !.res = res, !.input = "", !.found = NoDomain, !.listed = {}]

SiteCanStart(w) == wreq[w].pc \in {"idle", "done"}

\* The length test, Website::get_by_name and generate_website_id. dup records that the
\* owner already had a website of this name when the request began.
create_website_check(w) ==
    /\ SiteCanStart(w)
    /\ nextWebsite <= MaxWebsites
    /\ \E user_id \in Users, name \in WebsiteNames :
          LET r == [IdleSite EXCEPT !.op = "create_website", !.user_id = user_id,
                                    !.name = name,
                                    !.dup = (Website_get_by_name(name, user_id) # {})]
              fresh == Len(name) >= MININUM_WEBSITE_NAME_LENGTH
                          /\ Website_get_by_name(name, user_id) = {}
          IN /\ wreq' = [wreq EXCEPT ![w] =
                    IF Len(name) < MININUM_WEBSITE_NAME_LENGTH
                    THEN FinishSite(r, InvalidArgument)
                    ELSE IF Website_get_by_name(name, user_id) # {}
                         THEN FinishSite(r, InvalidArgument)
                    ELSE [r EXCEPT !.pc = "add_app",
                                   !.website_id = generate_website_id(nextWebsite)]]
             /\ nextWebsite' = IF fresh THEN nextWebsite + 1 ELSE nextWebsite
    /\ UNCHANGED <<oidcApps, dnsRecords>>
    /\ UNCHANGED <<domainVars, pageVars>>

\* ZitadelService::add_app for the platform subdomain
create_website_add_app(w) ==
    LET r == wreq[w]
    IN /\ r.op = "create_website" /\ r.pc = "add_app"
       /\ \/ /\ oidcApps' = oidcApps \cup {build_main_domain(r.website_id)}
             /\ wreq' = [wreq EXCEPT ![w].pc = "create_dns_record"]
          \/ /\ wreq' = [wreq EXCEPT ![w] = FinishSite(r, InternalError)]
             /\ UNCHANGED oidcApps
       /\ UNCHANGED <<dnsRecords, nextWebsite>>
       /\ UNCHANGED <<domainVars, pageVars>>

\* CloudflareService::create_dns_record for the platform subdomain
create_website_create_dns_record(w) ==
    LET r == wreq[w]
    IN /\ r.op = "create_website" /\ r.pc = "create_dns_record"
       /\ \/ /\ dnsRecords' = dnsRecords \cup {build_main_domain(r.website_id)}
             /\ wreq' = [wreq EXCEPT ![w].pc = "website_create"]
          \/ /\ wreq' = [wreq EXCEPT ![w] = FinishSite(r, InternalError)]
             /\ UNCHANGED dnsRecords
       /\ UNCHANGED <<oidcApps, nextWebsite>>
       /\ UNCHANGED <<domainVars, pageVars>>

\* Website::create: a unique violation is AlreadyExists, any other failure of the
\* statement or of the pool is Internal
create_website_website_create(w) ==
    LET r == wreq[w]
        row == [website_id |-> r.website_id, user_id |-> r.user_id, name |-> r.name]
    IN /\ r.op = "create_website" /\ r.pc = "website_create"
       /\ \/ /\ ViolatesUniqueWebsiteName(r.name, r.user_id)
             /\ wreq' = [wreq EXCEPT ![w] = FinishSite(r, AlreadyExists)]
             /\ UNCHANGED websites
          \/ /\ ~ViolatesUniqueWebsiteName(r.name, r.user_id)
             /\ websites' = websites \cup {row}
             /\ wreq' = [wreq EXCEPT ![w].pc = "domain_create"]
          \/ /\ wreq' = [wreq EXCEPT ![w] = FinishSite(r, InternalError)]
             /\ UNCHANGED websites
       /\ UNCHANGED <<domains, nextDomainId, provisioned, hostnames, dreq, sweep>>
       /\ UNCHANGED <<oidcApps, dnsRecords, nextWebsite>>
       /\ UNCHANGED pageVars

\* Domain::create with status Internal
create_website_domain_create(w) ==
    LET r == wreq[w]
        row == [domain_id |-> nextDomainId, website_id |-> r.website_id,
                user_id |-> r.user_id, domain |-> build_main_domain(r.website_id),
                status |-> Internal]
    IN /\ r.op = "create_website" /\ r.pc = "domain_create"
       /\ \/ /\ domains' = domains \cup {row}
             /\ nextDomainId' = nextDomainId + 1
             /\ provisioned' = provisioned @@ (nextDomainId :> "never")
             /\ wreq' = [wreq EXCEPT ![w] = FinishSite(r, OK)]
          \/ /\ wreq' = [wreq EXCEPT ![w] = FinishSite(r, InternalError)]
             /\ UNCHANGED <<domains, nextDomainId, provisioned>>
       /\ UNCHANGED <<websites, hostnames, dreq, sweep>>
       /\ UNCHANGED <<oidcApps, dnsRecords, nextWebsite>>
       /\ UNCHANGED pageVars

(***************************************************************************)
(* services/website.rs: add_domain_to_website.                             *)
(***************************************************************************)
\* Website::get with the owner test and Domain::get_by_domain_and_status(Active).
\* invalid records that the input would not pass validate_domain.
add_domain_to_website_check(w) ==
    /\ SiteCanStart(w)
    /\ nextDomainId + PendingInserts <= MaxDomainRows
    /\ \E user_id \in Users, website_id \in {x.website_id : x \in websites},
          input \in DomainInputs :
          LET r == [IdleSite EXCEPT !.op = "add_domain_to_website", !.user_id = user_id,
                                    !.website_id = website_id, !.input = input,
                                    !.owner = WebsiteOwnedBy(website_id, user_id),
                                    !.invalid = (validate_domain(input) # OK)]
          IN wreq' = [wreq EXCEPT ![w] =
                 IF ~WebsiteOwnedBy(website_id, user_id) THEN FinishSite(r, InvalidArgument)
                 ELSE IF Domain_get_by_domain_and_status(input, Active) # {}
                      THEN FinishSite([r EXCEPT !.in_use = TRUE], InvalidArgument)
                 ELSE [r EXCEPT !.pc = "domain_insert"]]
    /\ UNCHANGED <<oidcApps, dnsRecords, nextWebsite>>
    /\ UNCHANGED <<domainVars, pageVars>>

\* Domain::create with status Pending
add_domain_to_website_create(w) ==
    LET r == wreq[w]
        row == [domain_id |-> nextDomainId, website_id |-> r.website_id,
                user_id |-> r.user_id, domain |-> r.input, status |-> Pending]
    IN /\ r.op = "add_domain_to_website" /\ r.pc = "domain_insert"
       /\ IF ViolatesWebsiteForeignKey(r.website_id)
          THEN /\ wreq' = [wreq EXCEPT ![w] = FinishSite(r, FailedPrecondition)]
               /\ UNCHANGED <<domains, nextDomainId, provisioned>>
          ELSE /\ domains' = domains \cup {row}
               /\ nextDomainId' = nextDomainId + 1
               /\ provisioned' = provisioned @@ (nextDomainId :> "never")
               /\ wreq' = [wreq EXCEPT ![w] = FinishSite(r, OK)]
       /\ UNCHANGED <<websites, hostnames, dreq, sweep>>
       /\ UNCHANGED <<oidcApps, dnsRecords, nextWebsite>>
       /\ UNCHANGED pageVars

(***************************************************************************)
(* services/website.rs: remove_domain_from_website.                        *)
(***************************************************************************)
\* The names a request can ask to remove: user domains and platform subdomains.
RemovableInputs == DomainInputs \cup {d.domain : d \in domains}

\* if found_domain.status != DomainStatus::Internal
remove_domain_allowed(found_domain) == found_domain.status # Internal

\* Domain::get_for_website (query_opt: more than one row is an error) and the test of
\* the row's status. owner records whether the row belongs to the acting user.
remove_domain_from_website_get(w) ==
    /\ SiteCanStart(w)
    /\ \E user_id \in Users, website_id \in {x.website_id : x \in websites},
          input \in RemovableInputs :
          LET r == [IdleSite EXCEPT !.op = "remove_domain_from_website",
                                    !.user_id = user_id, !.website_id = website_id,
                                    !.input = input]
              found == Domain_get_for_website(input, website_id)
          IN wreq' = [wreq EXCEPT ![w] =
                 IF Cardinality(found) > 1 THEN FinishSite(r, InternalError)
                 ELSE IF found = {} THEN FinishSite(r, InvalidArgument)
                 ELSE LET found_domain == CHOOSE d \in found : TRUE
                          seen == [r EXCEPT !.found = found_domain,
                                            !.owner = (found_domain.user_id = user_id),
                                            !.internal = (found_domain.status = Internal)]
                      IN IF remove_domain_allowed(found_domain)
                         THEN [seen EXCEPT !.pc = "custom_hostnames"]
                         ELSE FinishSite(seen, InvalidArgument)]
    /\ UNCHANGED <<oidcApps, dnsRecords, nextWebsite>>
    /\ UNCHANGED <<domainVars, pageVars>>

\* list_custom_hostnames(domain), then delete_custom_hostname for each listed one; a
\* deletion the CDN answers with an HTTP error status is Ok(()) to the handler
remove_domain_from_website_custom_hostnames(w) ==
    LET r == wreq[w]
    IN /\ r.op = "remove_domain_from_website" /\ r.pc = "custom_hostnames"
       /\ \/ /\ wreq' = [wreq EXCEPT ![w] = FinishSite(r, InternalError)]
             /\ UNCHANGED hostnames
          \/ /\ hostnames' = hostnames \ {r.input}
             /\ wreq' = [wreq EXCEPT ![w].pc = "domain_delete"]
          \/ /\ r.input \in hostnames
             /\ UNCHANGED hostnames
             /\ wreq' = [wreq EXCEPT ![w].pc = "domain_delete"]
       /\ UNCHANGED <<websites, domains, nextDomainId, provisioned, dreq, sweep>>
       /\ UNCHANGED <<oidcApps, dnsRecords, nextWebsite>>
       /\ UNCHANGED pageVars

\* Domain::delete: conn.query of a DELETE; zero matched rows is not an error
remove_domain_from_website_delete(w) ==
    LET r == wreq[w]
        matched == Domain_where(r.found.domain_id, r.website_id, r.user_id)
    IN /\ r.op = "remove_domain_from_website" /\ r.pc = "domain_delete"
       /\ domains' = domains \ matched
       /\ wreq' = [wreq EXCEPT ![w] = FinishSite([r EXCEPT !.zero_rows = (matched = {})], OK)]
       /\ UNCHANGED <<websites, nextDomainId, provisioned, hostnames, dreq, sweep>>
       /\ UNCHANGED <<oidcApps, dnsRecords, nextWebsite>>
       /\ UNCHANGED pageVars

(***************************************************************************)
(* services/website.rs: delete_website.                                    *)
(***************************************************************************)
\* Website::get: WHERE website_id = .., with the website's domains
Website_get(website_id) == {x \in websites : x.website_id = website_id}

\* The rows matched by the WHERE clause of Website::delete.
Website_where(website_id, user_id) ==
    {x \in websites : x.website_id = website_id /\ x.user_id = user_id}

\* The ids a request can name: the websites that exist, and one that never did.
WebsiteIds == {x.website_id : x \in websites} \cup {generate_website_id(0)}

\* The status codes the identity provider answers a failed remove_app with.
RemoveAppErrors == {InternalError, NotFound}

\* Website::get: a website that is not found is answered with Ok. owner records
\* whether the website belongs to the acting user.
delete_website_get(w) ==
    /\ SiteCanStart(w)
    /\ \E user_id \in Users, website_id \in WebsiteIds :
          LET r == [IdleSite EXCEPT !.op = "delete_website", !.user_id = user_id,
                                    !.website_id = website_id]
              found == Website_get(website_id)
          IN wreq' = [wreq EXCEPT ![w] =
                 IF found = {} THEN FinishSite(r, OK)
                 ELSE LET found_website == CHOOSE x \in found : TRUE
                      IN [r EXCEPT !.pc = "remove_app",
                                   !.owner = (found_website.user_id = user_id),
                                   !.listed = {d \in domains : d.website_id = website_id}]]
    /\ UNCHANGED <<oidcApps, dnsRecords, nextWebsite>>
    /\ UNCHANGED <<domainVars, pageVars>>

\* ZitadelService::remove_app(found_website.zitadel_app_id)
delete_website_remove_app(w) ==
    LET r == wreq[w]
    IN /\ r.op = "delete_website" /\ r.pc = "remove_app"
       /\ \/ /\ oidcApps' = oidcApps \ {build_main_domain(r.website_id)}
             /\ wreq' = [wreq EXCEPT ![w].pc = "domains"]
          \/ /\ \E err \in RemoveAppErrors : wreq' = [wreq EXCEPT ![w] = FinishSite(r, err)]
             /\ UNCHANGED oidcApps
       /\ UNCHANGED <<dnsRecords, nextWebsite>>
       /\ UNCHANGED <<domainVars, pageVars>>

\* for domain in found_website.domains: list_dns_records and delete_dns_record, and
\* for an Active domain list_custom_hostnames and delete_custom_hostname. cleaned are
\* the domains the loop has dealt with when a call fails or the loop ends. refused:
\* the CDN answers the deletions with an HTTP error status, which delete_dns_record
\* and delete_custom_hostname return as Ok(()).
delete_website_domains(w) ==
    LET r == wreq[w]
    IN /\ r.op = "delete_website" /\ r.pc = "domains"
       /\ \E cleaned \in SUBSET r.listed, refused \in BOOLEAN :
             /\ refused => cleaned # {}
             /\ dnsRecords' = IF refused THEN dnsRecords
                              ELSE dnsRecords \ {d.domain : d \in cleaned}
             /\ hostnames' = IF refused THEN hostnames
                             ELSE hostnames \ {d.domain : d \in {x \in cleaned : x.status = Active}}
             /\ wreq' = [wreq EXCEPT ![w] =
                    IF cleaned = r.listed THEN [r EXCEPT !.pc = "delete_for_website"]
                    ELSE FinishSite(r, InternalError)]
       /\ UNCHANGED <<websites, domains, nextDomainId, provisioned, dreq, sweep>>
       /\ UNCHANGED <<oidcApps, nextWebsite>>
       /\ UNCHANGED pageVars

\* Domain::delete_for_website: conn.query of a DELETE
delete_website_delete_for_website(w) ==
    LET r == wreq[w]
    IN /\ r.op = "delete_website" /\ r.pc = "delete_for_website"
       /\ domains' = domains \ Domain_where_website(r.website_id, r.user_id)
       /\ wreq' = [wreq EXCEPT ![w].pc = "website_delete"]
       /\ UNCHANGED <<websites, nextDomainId, provisioned, hostnames, dreq, sweep>>
       /\ UNCHANGED <<oidcApps, dnsRecords, nextWebsite>>
       /\ UNCHANGED pageVars

\* Schema (migrations): the pages of a deleted website, and their static pages, go
\* with it.
CascadePages(deleted) == {x \in pages : \A y \in deleted : x.website_id # y.website_id}

CascadeStaticPages(deleted) ==
    {x \in staticPages : \E y \in CascadePages(deleted) : y.page_id = x.page_id}

\* Website::delete: query_one of DELETE .. RETURNING, an error on zero rows
delete_website_delete(w) ==
    LET r == wreq[w]
        matched == Website_where(r.website_id, r.user_id)
    IN /\ r.op = "delete_website" /\ r.pc = "website_delete"
       /\ websites' = websites \ matched
       /\ domains' = CascadeDomains(matched)
       /\ pages' = CascadePages(matched)
       /\ staticPages' = CascadeStaticPages(matched)
       /\ wreq' = [wreq EXCEPT ![w] =
              FinishSite([r EXCEPT !.zero_rows = (matched = {})],
                         IF matched = {} THEN InternalError ELSE OK)]
       /\ UNCHANGED <<nextDomainId, provisioned, hostnames, dreq, sweep>>
       /\ UNCHANGED <<oidcApps, dnsRecords, nextWebsite>>
       /\ UNCHANGED <<nextPageId, preq, lreq, freq>>

(***************************************************************************)
(* services/mod.rs, model/page.rs, model/webiste.rs: the list RPCs.        *)
(***************************************************************************)
DEFAULT_LIMIT == 10

\* Option<PaginationRequest>; page and size are u32
NonePagination == [is_some |-> FALSE, page |-> 0, size |-> 0]

PaginationRequests ==
    {NonePagination}
        \cup {[is_some |-> TRUE, page |-> p, size |-> n] : p \in 0..MaxPage, n \in 0..MaxSize}

\* get_limit_offset_from_pagination. The product is a u32 product; on the inputs of
\* the model it stays far below 2^32.
get_limit_offset_from_pagination(request) ==
    IF ~request.is_some
    THEN [res |-> OK, limit |-> DEFAULT_LIMIT, offset |-> 0, page |-> 1,
          size |-> DEFAULT_LIMIT]
    ELSE IF request.page < 1
         THEN [res |-> InvalidArgument, limit |-> 0, offset |-> 0, page |-> 0, size |-> 0]
    ELSE [res |-> OK, limit |-> request.size,
          offset |-> (request.page - 1) * request.size,
          page |-> request.page, size |-> request.size]

\* LIMIT limit OFFSET offset applied to the rows in the order the statement returned
\* them.
LimitOffset(rows, limit, offset) ==
    [i \in 1..(IF Len(rows) - offset < 0 THEN 0
               ELSE IF Len(rows) - offset < limit THEN Len(rows) - offset
               ELSE limit) |-> rows[offset + i]]

\* Page::list: SELECT * FROM pages [WHERE website_id = ..] LIMIT .. OFFSET .. without
\* ORDER BY, and SELECT count(*) with the same condition.
Page_list_where(website_id) ==
    {x \in pages : website_id.is_some => x.website_id = website_id.v}

Page_list(website_id, limit, offset) ==
    {[rows |-> LimitOffset(o, limit, offset), count |-> Cardinality(Page_list_where(website_id))] :
        o \in Orderings(Page_list_where(website_id))}

\* Website::list: the same two statements on websites, filtered by user_id.
Website_list_where(user_id) ==
    {x \in websites : user_id.is_some => x.user_id = user_id.v}

Website_list(user_id, limit, offset) ==
    {[rows |-> LimitOffset(o, limit, offset), count |-> Cardinality(Website_list_where(user_id))] :
        o \in Orderings(Website_list_where(user_id))}

\* i64_to_u32: try_into fails on a negative count (and above u32::MAX, which a count
\* of the model's tables never reaches)
i64_to_u32(n) == IF n < 0 THEN InternalError ELSE OK

\* items: the ids of the response's items, in order.
IdleList ==
    [op |-> "idle", pc |-> "idle", filter |-> NoneStr, request |-> NonePagination,
     limit |-> 0, offset |-> 0, items |-> <<>>, page |-> 0, size |-> 0,
     total_elements |-> 0, res |-> NoResult]

ListResponse(op, filter, request, lo, ids, count) ==
    IF lo.res # OK
    THEN [IdleList EXCEPT !.op = op, !.pc = "done", !.filter = filter,
                          !.request = request, !.res = lo.res]
    ELSE [op |-> op, pc |-> "done", filter |-> filter, request |-> request,
          limit |-> lo.limit, offset |-> lo.offset, items |-> ids, page |-> lo.page,
          size |-> lo.size, total_elements |-> count, res |-> i64_to_u32(count)]

\* The values of the filter of a list request: absent, one that matches rows and one
\* that matches none.
PageFilters == {NoneStr, Some(generate_website_id(1)), Some(generate_website_id(0))}

UserFilters == {NoneStr} \cup {Some(u) : u \in Users}

\* PageService::list_pages
list_pages(w) ==
    /\ \E website_id \in PageFilters, pagination \in PaginationRequests :
          LET lo == get_limit_offset_from_pagination(pagination)
          IN \E found \in Page_list(website_id, lo.limit, lo.offset) :
                lreq' = [lreq EXCEPT ![w] =
                    ListResponse("list_pages", website_id, pagination, lo,
                                 [i \in DOMAIN found.rows |-> found.rows[i].page_id],
                                 found.count)]
    /\ UNCHANGED <<pages, nextPageId, staticPages, preq, freq>>
    /\ UNCHANGED <<domainVars, siteVars>>

\* WebsiteService::list_websites
list_websites(w) ==
    /\ \E user_id \in UserFilters, pagination \in PaginationRequests :
          LET lo == get_limit_offset_from_pagination(pagination)
          IN \E found \in Website_list(user_id, lo.limit, lo.offset) :
                lreq' = [lreq EXCEPT ![w] =
                    ListResponse("list_websites", user_id, pagination, lo,
                                 [i \in DOMAIN found.rows |-> found.rows[i].website_id],
                                 found.count)]
    /\ UNCHANGED <<pages, nextPageId, staticPages, preq, freq>>
    /\ UNCHANGED <<domainVars, siteVars>>

(***************************************************************************)
(* The decoder of the aggregate columns: model/domain.rs, model/page.rs,   *)
(* model/webiste.rs. select_with_relations joins, per child table, a       *)
(* sub-query array_agg((col, ..)) grouped by website_id; the column comes  *)
(* back in the engine's binary format and is decoded field by field.       *)
(***************************************************************************)
\* Types of the wire format. An oid is modelled by the type it names.
INT8 == "int8"
INT4 == "int4"
VARCHAR == "varchar"
TEXT == "text"
BOOL == "bool"

\* Result<T, E> of a decoding step
Decoded(v) == [ok |-> TRUE, v |-> v]
DecodeError == [ok |-> FALSE, v |-> <<>>]

\* get_type_from_oid::<T>: Type::from_oid fails on an unknown oid, and T::accepts
\* decides whether the Rust type reads the PostgreSQL type.
accepts(T, ty) ==
    CASE T = "i64" -> ty = INT8
      [] T = "String" -> ty \in {VARCHAR, TEXT}
      [] T = "bool" -> ty = BOOL

get_type_from_oid(T, oid) == oid \in {INT8, INT4, VARCHAR, TEXT, BOOL} /\ accepts(T, oid)

\* A value on the wire: its length and its bytes; an integer is big-endian.
RECURSIVE to_be_bytes(_, _)
to_be_bytes(n, width) ==
    IF width = 0 THEN <<>> ELSE Append(to_be_bytes(n \div 256, width - 1), n % 256)

RECURSIVE from_be_bytes(_)
from_be_bytes(bytes) ==
    IF Len(bytes) = 0 THEN 0
    ELSE from_be_bytes(SubSeq(bytes, 1, Len(bytes) - 1)) * 256 + bytes[Len(bytes)]

\* read_value: the length, then T::from_sql on that many bytes; a negative length is
\* NULL, which i64, String and bool refuse.
read_value(T, raw) ==
    IF raw.len < 0 THEN DecodeError
    ELSE CASE T = "i64" -> IF raw.len # 8 THEN DecodeError
                           ELSE Decoded(from_be_bytes(raw.bytes))
           [] T = "String" -> Decoded(raw.bytes)
           [] T = "bool" -> IF raw.len # 1 THEN DecodeError
                            ELSE Decoded(raw.bytes[1] # 0)

\* One field of a composite: read_be_i32 (the oid), get_type_from_oid, read_value.
read_field(T, field) ==
    IF get_type_from_oid(T, field.oid) THEN read_value(T, field.value) ELSE DecodeError

\* The columns of the tables as the engine sends them: bigint, varchar, boolean.
int8send(n) == [oid |-> INT8, value |-> [len |-> 8, bytes |-> to_be_bytes(n, 8)]]

varcharsend(s) == [oid |-> VARCHAR, value |-> [len |-> Len(s), bytes |-> s]]

boolsend(b) == [oid |-> BOOL, value |-> [len |-> 1, bytes |-> <<IF b THEN 1 ELSE 0>>]]

\* DomainAsRel::add_join: the composite (domain_id, domain, status)
DomainAsRel_to_sql(x) ==
    [count |-> 3,
     fields |-> <<int8send(x.domain_id), varcharsend(x.domain), varcharsend(x.status)>>]

\* PageAsRel::add_join: the composite (page_id, page_type, content_id, title,
\* is_home_page, path)
PageAsRel_to_sql(x) ==
    [count |-> 6,
     fields |-> <<int8send(x.page_id), varcharsend(x.page_type), varcharsend(x.content_id),
                  varcharsend(x.title), boolsend(x.is_home_page), varcharsend(x.path)>>]

\* array_agg of the composites: one dimension, the elements in the order of the rows;
\* no dimension when there is no element.
DomainAsRelVec_to_sql(rows) ==
    [dimensions |-> IF Len(rows) = 0 THEN 0 ELSE 1,
     values |-> [i \in DOMAIN rows |-> Some(DomainAsRel_to_sql(rows[i]))]]

PageAsRelVec_to_sql(rows) ==
    [dimensions |-> IF Len(rows) = 0 THEN 0 ELSE 1,
     values |-> [i \in DOMAIN rows |-> Some(PageAsRel_to_sql(rows[i]))]]

\* DomainAsRel::from_sql with the fields read in another order than add_join sends them
DomainAsRel_from_sql_status_first(raw) ==
    IF Len(raw.fields) < 3 THEN DecodeError
    ELSE LET domain_id == read_field("i64", raw.fields[1])
             status == read_field("String", raw.fields[2])
             domain == read_field("String", raw.fields[3])
         IN IF domain_id.ok /\ domain.ok /\ status.ok
            THEN Decoded([domain_id |-> domain_id.v, domain |-> domain.v,
                          status |-> status.v])
            ELSE DecodeError

\* DomainAsRel::from_sql: the field count is read and not used, then the three fields
\* in the order domain_id, domain, status; a read past the end of the buffer fails.
DomainAsRel_from_sql(raw) ==
    IF Len(raw.fields) < 3 THEN DecodeError
    ELSE LET domain_id == read_field("i64", raw.fields[1])
             domain == read_field("String", raw.fields[2])
             status == read_field("String", raw.fields[3])
         IN IF domain_id.ok /\ domain.ok /\ status.ok
            THEN Decoded([domain_id |-> domain_id.v, domain |-> domain.v,
                          status |-> status.v])
            ELSE DecodeError

\* PageAsRel::from_sql: the six fields in the order of add_join
PageAsRel_from_sql(raw) ==
    IF Len(raw.fields) < 6 THEN DecodeError
    ELSE LET page_id == read_field("i64", raw.fields[1])
             page_type == read_field("String", raw.fields[2])
             content_id == read_field("String", raw.fields[3])
             title == read_field("String", raw.fields[4])
             is_home_page == read_field("bool", raw.fields[5])
             path == read_field("String", raw.fields[6])
         IN IF page_id.ok /\ page_type.ok /\ content_id.ok /\ title.ok
                /\ is_home_page.ok /\ path.ok
            THEN Decoded([page_id |-> page_id.v, page_type |-> page_type.v,
                          content_id |-> content_id.v, title |-> title.v,
                          is_home_page |-> is_home_page.v, path |-> path.v])
            ELSE DecodeError

\* array.values().filter_map(|v| Ok(from_sql_nullable(&Type::RECORD, v).ok())): a NULL
\* element and an element that fails to decode are left out, the others are kept in
\* order.
RECURSIVE DomainAsRel_filter_map(_)
DomainAsRel_filter_map(values) ==
    IF Len(values) = 0 THEN <<>>
    ELSE LET element == IF values[1].is_some THEN DomainAsRel_from_sql(values[1].v)
                        ELSE DecodeError
         IN (IF element.ok THEN <<element.v>> ELSE <<>>)
                \o DomainAsRel_filter_map(Tail(values))

RECURSIVE PageAsRel_filter_map(_)
PageAsRel_filter_map(values) ==
    IF Len(values) = 0 THEN <<>>
    ELSE LET element == IF values[1].is_some THEN PageAsRel_from_sql(values[1].v)
                        ELSE DecodeError
         IN (IF element.ok THEN <<element.v>> ELSE <<>>)
                \o PageAsRel_filter_map(Tail(values))

\* DomainAsRelVec::from_sql, PageAsRelVec::from_sql: more than one dimension is an
\* error.
DomainAsRelVec_from_sql(array) ==
    IF array.dimensions > 1 THEN DecodeError
    ELSE Decoded(DomainAsRel_filter_map(array.values))

PageAsRelVec_from_sql(array) ==
    IF array.dimensions > 1 THEN DecodeError
    ELSE Decoded(PageAsRel_filter_map(array.values))

\* What can be wrong with an aggregate column: nothing, a second dimension, the first
\* field of element at sent as integer rather than bigint, element at NULL.
Faults == {"none", "dimensions", "oid", "null_element"}

NullElement == [is_some |-> FALSE, v |-> [count |-> 0, fields |-> <<>>]]

WithFault(array, fault, at) ==
    CASE fault = "none" -> array
      [] fault = "dimensions" -> [array EXCEPT !.dimensions = 2]
      [] fault = "oid" -> [array EXCEPT !.values[at].v.fields[1].oid = INT4]
      [] fault = "null_element" -> [array EXCEPT !.values[at] = NullElement]

\* The column of the LEFT JOIN: NULL for a website without child rows.
AggregateColumn(array) ==
    [is_some |-> Len(array.values) > 0, v |-> array]

\* impl From<&Row> for Website: try_get(..).ok().map(|d| d.0).unwrap_or_default() on
\* both columns; try_get fails on NULL and on what from_sql refuses.
Website_from_row(row) ==
    LET domains_col == IF row.domains.is_some THEN DomainAsRelVec_from_sql(row.domains.v)
                       ELSE DecodeError
        pages_col == IF row.pages.is_some THEN PageAsRelVec_from_sql(row.pages.v)
                     ELSE DecodeError
    IN [domains |-> IF domains_col.ok THEN domains_col.v ELSE <<>>,
        pages |-> IF pages_col.ok THEN pages_col.v ELSE <<>>]

\* The child rows of a website as the sub-queries select them. A row of the model
\* carries no page_type and no content_id: create_page stores PAGE_TYPE_STATIC, the
\* only type it accepts, and the content id of the request, here the empty one.
ChildDomains(website_id) == {x \in domains : x.website_id = website_id}

ChildPages(website_id) == {x \in pages : x.website_id = website_id}

DomainColumns(x) == [domain_id |-> x.domain_id, domain |-> x.domain, status |-> x.status]

PageColumns(x) ==
    [page_id |-> x.page_id, page_type |-> PAGE_TYPE_STATIC, content_id |-> "",
     title |-> x.title, is_home_page |-> x.is_home_page, path |-> x.path]

\* Lists of child records to encode, of up to MaxChildren elements.
DomainRels ==
    {[domain_id |-> i, domain |-> d, status |-> s] :
        i \in 1..MaxChildren,
        d \in {build_main_domain(generate_website_id(1))} \cup DomainNames,
        s \in {Pending, Active}}

PageRels ==
    {[page_id |-> i, page_type |-> PAGE_TYPE_STATIC, content_id |-> c, title |-> t,
      is_home_page |-> h, path |-> IF h THEN HOME_PAGE_PATH ELSE get_slugified_path(t)] :
        i \in 1..MaxChildren, c \in {"", "c1"}, t \in PageTitles, h \in BOOLEAN}

\* column: the aggregate column a fault was put into; domains_in, pages_in: the child
\* records that were encoded; domains, pages: what the decoder made of them.
IdleFetch ==
    [op |-> "idle", column |-> "", fault |-> "none", at |-> 0,
     domains_in |-> <<>>, pages_in |-> <<>>, ok |-> FALSE,
     domains |-> <<>>, pages |-> <<>>, res |-> NoResult]

\* DomainAsRelVec::from_sql on the array of the given records
decode_domains ==
    /\ \E rows \in SeqsUpTo(DomainRels, MaxChildren) :
          LET d == DomainAsRelVec_from_sql(DomainAsRelVec_to_sql(rows))
          IN freq' = [IdleFetch EXCEPT !.op = "DomainAsRelVec", !.column = "domains",
                                       !.domains_in = rows, !.ok = d.ok,
                                       !.domains = d.v]
    /\ UNCHANGED <<pages, nextPageId, staticPages, preq, lreq>>
    /\ UNCHANGED <<domainVars, siteVars>>

\* PageAsRelVec::from_sql on the array of the given records
decode_pages ==
    /\ \E rows \in SeqsUpTo(PageRels, MaxChildren) :
          LET d == PageAsRelVec_from_sql(PageAsRelVec_to_sql(rows))
          IN freq' = [IdleFetch EXCEPT !.op = "PageAsRelVec", !.column = "pages",
                                       !.pages_in = rows, !.ok = d.ok,
                                       !.pages = d.v]
    /\ UNCHANGED <<pages, nextPageId, staticPages, preq, lreq>>
    /\ UNCHANGED <<domainVars, siteVars>>

\* WebsiteService::get_website by website_id: Website::get (query_opt on
\* select_with_relations), From<&Row>, to_response. array_agg has no ORDER BY.
get_website ==
    /\ \E website_id \in {NoneStr} \cup {Some(generate_website_id(i)) : i \in 0..1},
          column \in {"domains", "pages"}, fault \in Faults, at \in 1..MaxChildren :
          IF ~website_id.is_some
          THEN freq' = [IdleFetch EXCEPT !.op = "get_website", !.res = InvalidArgument]
          ELSE IF Website_get(website_id.v) = {}
          THEN freq' = [IdleFetch EXCEPT !.op = "get_website", !.res = OK]
          ELSE \E d \in Orderings({DomainColumns(x) : x \in ChildDomains(website_id.v)}),
                  p \in Orderings({PageColumns(x) : x \in ChildPages(website_id.v)}) :
                  /\ fault # "none" => at <= Len(IF column = "domains" THEN d ELSE p)
                  /\ LET row == [domains |-> AggregateColumn(
                                    IF column = "domains"
                                    THEN WithFault(DomainAsRelVec_to_sql(d), fault, at)
                                    ELSE DomainAsRelVec_to_sql(d)),
                                 pages |-> AggregateColumn(
                                    IF column = "pages"
                                    THEN WithFault(PageAsRelVec_to_sql(p), fault, at)
                                    ELSE PageAsRelVec_to_sql(p))]
                         website == Website_from_row(row)
                     IN freq' = [op |-> "get_website", column |-> column, fault |-> fault,
                                 at |-> IF fault = "none" THEN 0 ELSE at,
                                 domains_in |-> d, pages_in |-> p, ok |-> TRUE,
                                 domains |-> website.domains, pages |-> website.pages,
                                 res |-> OK]
    /\ UNCHANGED <<pages, nextPageId, staticPages, preq, lreq>>
    /\ UNCHANGED <<domainVars, siteVars>>

(***************************************************************************)
(* Initial states.                                                         *)
(***************************************************************************)
\* The service after construction: empty tables, nothing at the collaborators.
InitWebsite ==
    /\ websites = {} /\ domains = {} /\ nextDomainId = 1
    /\ provisioned = <<>>
    /\ hostnames = {}
    /\ dreq = [w \in Workers |-> IdleRequest]
    /\ sweep = IdleSweep
    /\ pages = {} /\ nextPageId = 1 /\ staticPages = {}
    /\ preq = [w \in Workers |-> IdlePage]
    /\ lreq = [w \in Workers |-> IdleList]
    /\ freq = IdleFetch
    /\ oidcApps = {} /\ dnsRecords = {} /\ nextWebsite = 1
    /\ wreq = [w \in Workers |-> IdleSite]

\* The service after create_website("Acme") has succeeded once, for u1: the website row,
\* its Internal domain, its OIDC application and its DNS record exist; u2 owns nothing.
AfterCreateWebsite ==
    /\ websites = {[website_id |-> generate_website_id(1), user_id |-> "u1", name |-> "Acme"]}
    /\ domains = {[domain_id |-> 1, website_id |-> generate_website_id(1), user_id |-> "u1",
                   domain |-> build_main_domain(generate_website_id(1)),
                   status |-> Internal]}
    /\ nextDomainId = 2
    /\ provisioned = [i \in {1} |-> "never"]
    /\ hostnames = {}
    /\ dreq = [w \in Workers |-> IdleRequest]
    /\ sweep = IdleSweep
    /\ pages = {} /\ nextPageId = 1 /\ staticPages = {}
    /\ preq = [w \in Workers |-> IdlePage]
    /\ lreq = [w \in Workers |-> IdleList]
    /\ freq = IdleFetch
    /\ oidcApps = {build_main_domain(generate_website_id(1))}
    /\ dnsRecords = {build_main_domain(generate_website_id(1))}
    /\ nextWebsite = 2
    /\ wreq = [w \in Workers |-> IdleSite]

(***************************************************************************)
(* The domain verification engine, on a website that create_website has    *)
(* made for u1: its row and its Internal domain exist; u2 owns nothing.    *)
(***************************************************************************)
InitDomain == AfterCreateWebsite

NextDomain ==
    \/ \E w \in DomainWorkers : create_domain_check(w)
    \/ \E w \in DomainWorkers : create_domain_insert(w)
    \/ \E w \in DomainWorkers : check_domain_status_get(w)
    \/ \E w \in DomainWorkers : check_domain_status_dns_lookup(w)
    \/ \E w \in DomainWorkers : check_domain_status_decided(w)
    \/ \E w \in DomainWorkers : check_domain_status_provision(w)
    \/ \E w \in DomainWorkers : check_domain_status_update(w)
    \/ \E w \in DomainWorkers : delete_domain_get(w)
    \/ \E w \in DomainWorkers : delete_domain_custom_hostnames(w)
    \/ \E w \in DomainWorkers : delete_domain_delete(w)
    \/ check_custom_domains_start
    \/ check_custom_domains_fetch_ips
    \/ check_custom_domains_decided
    \/ check_custom_domains_provision
    \/ check_custom_domains_update
    \/ run_custom_hostnames_check_end

SpecDomain == InitDomain /\ [][NextDomain]_vars

(***************************************************************************)
(* The page service on the website of u1, as create_website leaves it:     *)
(* SpecPage with two concurrent requests, SpecPageSeq with one request at  *)
(* a time.                                                                 *)
(***************************************************************************)
InitPage == AfterCreateWebsite

PageStep(w) ==
    \/ create_page_start(w)
    \/ make_current_home_page_not_home_page_get(w)
    \/ make_current_home_page_not_home_page_update(w)
    \/ create_page_insert(w)
    \/ ensure_static_page(w)
    \/ update_page_start(w)
    \/ update_page_update(w)
    \/ delete_page_get(w)
    \/ delete_page_static_page(w)
    \/ delete_page_page(w)

NextPage == \E w \in Workers : PageStep(w)

SpecPage == InitPage /\ [][NextPage]_vars

NextPageSeq == \E w \in SeqWorkers : PageStep(w)

SpecPageSeq == InitPage /\ [][NextPageSeq]_vars

(***************************************************************************)
(* Website creation by two concurrent requests, from the empty service.    *)
(***************************************************************************)
NextWebsite ==
    \/ \E w \in Workers : create_website_check(w)
    \/ \E w \in Workers : create_website_add_app(w)
    \/ \E w \in Workers : create_website_create_dns_record(w)
    \/ \E w \in Workers : create_website_website_create(w)
    \/ \E w \in Workers : create_website_domain_create(w)

SpecWebsite == InitWebsite /\ [][NextWebsite]_vars

(***************************************************************************)
(* The domains of a website through both services, one RPC at a time:      *)
(* DomainService and the website RPCs that add and remove domains and      *)
(* delete the website.                                                     *)
(***************************************************************************)
InitSite == AfterCreateWebsite

\* No RPC is being handled.
NoRequestInFlight ==
    \A w \in Workers : dreq[w].pc \in {"idle", "done"} /\ wreq[w].pc \in {"idle", "done"}

NextSite ==
    \/ \E w \in SeqWorkers : NoRequestInFlight /\ create_domain_check(w)
    \/ \E w \in SeqWorkers : create_domain_insert(w)
    \/ \E w \in SeqWorkers : NoRequestInFlight /\ check_domain_status_get(w)
    \/ \E w \in SeqWorkers : check_domain_status_dns_lookup(w)
    \/ \E w \in SeqWorkers : check_domain_status_decided(w)
    \/ \E w \in SeqWorkers : check_domain_status_provision(w)
    \/ \E w \in SeqWorkers : check_domain_status_update(w)
    \/ \E w \in SeqWorkers : NoRequestInFlight /\ delete_domain_get(w)
    \/ \E w \in SeqWorkers : delete_domain_custom_hostnames(w)
    \/ \E w \in SeqWorkers : delete_domain_delete(w)
    \/ \E w \in SeqWorkers : NoRequestInFlight /\ add_domain_to_website_check(w)
    \/ \E w \in SeqWorkers : add_domain_to_website_create(w)
    \/ \E w \in SeqWorkers : NoRequestInFlight /\ remove_domain_from_website_get(w)
    \/ \E w \in SeqWorkers : remove_domain_from_website_custom_hostnames(w)
    \/ \E w \in SeqWorkers : remove_domain_from_website_delete(w)
    \/ \E w \in SeqWorkers : NoRequestInFlight /\ delete_website_get(w)
    \/ \E w \in SeqWorkers : delete_website_remove_app(w)
    \/ \E w \in SeqWorkers : delete_website_domains(w)
    \/ \E w \in SeqWorkers : delete_website_delete_for_website(w)
    \/ \E w \in SeqWorkers : delete_website_delete(w)

SpecSite == InitSite /\ [][NextSite]_vars

(***************************************************************************)
(* The list RPCs on an unchanged data set: the websites of one or of both  *)
(* users as create_website leaves them, and up to MaxPageRows pages that   *)
(* create_page has made on the website of u1.                              *)
(***************************************************************************)
InitList ==
    \E nw \in 1..2, np \in 0..MaxPageRows :
        /\ websites = {[website_id |-> generate_website_id(i),
                        user_id |-> IF i = 1 THEN "u1" ELSE "u2", name |-> "Acme"] :
                          i \in 1..nw}
        /\ domains = {[domain_id |-> i, website_id |-> generate_website_id(i),
                       user_id |-> IF i = 1 THEN "u1" ELSE "u2",
                       domain |-> build_main_domain(generate_website_id(i)),
                       status |-> Internal] : i \in 1..nw}
        /\ nextDomainId = nw + 1
        /\ provisioned = [i \in 1..nw |-> "never"]
        /\ hostnames = {}
        /\ dreq = [w \in Workers |-> IdleRequest]
        /\ sweep = IdleSweep
        /\ pages = {[page_id |-> i, website_id |-> generate_website_id(1), user_id |-> "u1",
                     title |-> "About", is_home_page |-> FALSE,
                     path |-> get_slugified_path("About")] : i \in 1..np}
        /\ nextPageId = np + 1
        /\ staticPages = {[page_id |-> i, user_id |-> "u1"] : i \in 1..np}
        /\ preq = [w \in Workers |-> IdlePage]
        /\ lreq = [w \in Workers |-> IdleList]
        /\ freq = IdleFetch
        /\ oidcApps = {build_main_domain(generate_website_id(i)) : i \in 1..nw}
        /\ dnsRecords = {build_main_domain(generate_website_id(i)) : i \in 1..nw}
        /\ nextWebsite = nw + 1
        /\ wreq = [w \in Workers |-> IdleSite]

NextList ==
    \/ \E w \in Workers : list_pages(w)
    \/ \E w \in Workers : list_websites(w)

SpecList == InitList /\ [][NextList]_vars

(***************************************************************************)
(* The aggregate fetch and the two array decoders: a website of u1 with    *)
(* its Internal domain, possibly a custom domain, and up to MaxPageRows    *)
(* pages that create_page has made.                                        *)
(***************************************************************************)
InitFetch ==
    \E custom \in {"", Pending, Active}, np \in 0..MaxPageRows :
        /\ websites = {[website_id |-> generate_website_id(1), user_id |-> "u1",
                        name |-> "Acme"]}
        /\ domains = {[domain_id |-> 1, website_id |-> generate_website_id(1),
                       user_id |-> "u1",
                       domain |-> build_main_domain(generate_website_id(1)),
                       status |-> Internal]}
                     \cup {[domain_id |-> 2, website_id |-> generate_website_id(1),
                            user_id |-> "u1", domain |-> d, status |-> custom] :
                              d \in IF custom = "" THEN {} ELSE DomainNames}
        /\ nextDomainId = IF custom = "" THEN 2 ELSE 3
        /\ provisioned = IF custom = "" THEN [i \in {1} |-> "never"]
                         ELSE [i \in 1..2 |-> IF i = 2 /\ custom = Active THEN "once"
                                              ELSE "never"]
        /\ hostnames = IF custom = Active THEN DomainNames ELSE {}
        /\ dreq = [w \in Workers |-> IdleRequest]
        /\ sweep = IdleSweep
        /\ pages = {[page_id |-> i, website_id |-> generate_website_id(1), user_id |-> "u1",
                     title |-> "About", is_home_page |-> FALSE,
                     path |-> get_slugified_path("About")] : i \in 1..np}
        /\ nextPageId = np + 1
        /\ staticPages = {[page_id |-> i, user_id |-> "u1"] : i \in 1..np}
        /\ preq = [w \in Workers |-> IdlePage]
        /\ lreq = [w \in Workers |-> IdleList]
        /\ freq = IdleFetch
        /\ oidcApps = {build_main_domain(generate_website_id(1))}
        /\ dnsRecords = {build_main_domain(generate_website_id(1))}
        /\ nextWebsite = 2
        /\ wreq = [w \in Workers |-> IdleSite]

NextFetch ==
    \/ decode_domains
    \/ decode_pages
    \/ get_website

SpecFetch == InitFetch /\ [][NextFetch]_vars

(***************************************************************************)
(* The service as main starts it, with clients that add and delete domains *)
(* and never call check_domain_status. main builds the five services and   *)
(* serves them; it does not call run_custom_hostnames_check, and lib.rs    *)
(* does not declare the module custom_hostnames, so no step of the running *)
(* service is a step of the sweep. The scheduler is fair to the requests.  *)
(***************************************************************************)
InitService == AfterCreateWebsite

NextService ==
    \/ \E w \in Workers : create_domain_check(w)
    \/ \E w \in Workers : create_domain_insert(w)
    \/ \E w \in Workers : delete_domain_get(w)
    \/ \E w \in Workers : delete_domain_custom_hostnames(w)
    \/ \E w \in Workers : delete_domain_delete(w)

SpecService == InitService /\ [][NextService]_vars /\ WF_vars(NextService)

(***************************************************************************)
(* delete_website while a domain of the website is being added or checked: *)
(* one domain RPC and one delete_website in flight at a time.              *)
(***************************************************************************)
InitDelete == AfterCreateWebsite

NextDelete ==
    \/ \E w \in SeqWorkers : create_domain_check(w)
    \/ \E w \in SeqWorkers : create_domain_insert(w)
    \/ \E w \in SeqWorkers : check_domain_status_get(w)
    \/ \E w \in SeqWorkers : check_domain_status_dns_lookup(w)
    \/ \E w \in SeqWorkers : check_domain_status_decided(w)
    \/ \E w \in SeqWorkers : check_domain_status_provision(w)
    \/ \E w \in SeqWorkers : check_domain_status_update(w)
    \/ \E w \in SeqWorkers : delete_website_get(w)
    \/ \E w \in SeqWorkers : delete_website_remove_app(w)
    \/ \E w \in SeqWorkers : delete_website_domains(w)
    \/ \E w \in SeqWorkers : delete_website_delete_for_website(w)
    \/ \E w \in SeqWorkers : delete_website_delete(w)

SpecDelete == InitDelete /\ [][NextDelete]_vars


(***************************************************************************)
(* Properties of the domain verification engine (SpecDomain).              *)
(***************************************************************************)
RuleHolds(obs) == obs.cname \/ obs.same_ips

\* C1: a check (check_domain_status or one iteration of the sweep) decides to activate
\* a Pending domain if and only if, on the DNS answers of that check, the candidate has
\* a CNAME answer to the fallback domain or resolves to the same set of addresses as
\* the platform target.
C1_ActivatesIffRuleHolds ==
    /\ \A w \in Workers :
          dreq[w].pc = "decided" => (dreq[w].obs.activate <=> RuleHolds(dreq[w].obs))
    /\ sweep.pc = "decided" => (sweep.obs.activate <=> RuleHolds(sweep.obs))

\* C2: the only change of status a domain row ever undergoes is Pending -> Active.
C2_OnlyPendingToActive ==
    [][\A d \in domains : \A e \in domains' :
          (d.domain_id = e.domain_id /\ d.status # e.status)
              => (d.status = Pending /\ e.status = Active)]_vars

\* C2 witness: a row has gone from Pending to Active while the Internal row is there.
C2_Witness ==
    /\ \E d \in domains : d.status = Active
    /\ \E d \in domains : d.status = Internal

\* C3: at most one create_custom_hostname call is made for the activation of a domain
\* row, under every interleaving of check_domain_status and the sweep: the call never
\* succeeds a second time for the same row.
C3_AtMostOneProvisioning ==
    \A id \in DOMAIN provisioned : provisioned[id] # "many"

\* C4: when a run of the sweep is over, no domain listed after the one whose check
\* failed has been left unchecked: the loop reached the last listed domain.
C4_SweepChecksEveryListedDomain ==
    (sweep.pc = "ended" /\ sweep.i >= 1) => sweep.i >= Len(sweep.domains)

(***************************************************************************)
(* Properties of the page service (SpecPageSeq, SpecPage).                 *)
(***************************************************************************)
\* C5: with one request at a time, a create_page or update_page that sets is_home_page =
\* true on a website that had exactly one home page, at "/", leaves the website with
\* exactly one home page, at "/", whether the request succeeds or fails.
C5_ExactlyOneHomePageAfterPromotion ==
    \A w \in Workers :
        (preq[w].pc = "done" /\ preq[w].had_home)
            => ExactlyOneHomeAtRoot(preq[w].website_id)

AtMostOneHomePage ==
    \A x \in websites : Cardinality(Page_get_home_page(x.website_id)) <= 1

HomePageAtRoot == \A p \in pages : p.is_home_page => p.path = HOME_PAGE_PATH

\* C6: in every reachable state, concurrent requests included, a website has at most one
\* page with is_home_page = true, and a page with is_home_page = true has path "/".
C6_AtMostOneHomePageAtRoot == AtMostOneHomePage /\ HomePageAtRoot

ZeroRowsWriteNeverSucceeds ==
    /\ \A w \in Workers : (preq[w].pc = "done" /\ preq[w].zero_rows) => preq[w].res # OK
    /\ \A w \in Workers : (dreq[w].pc = "done" /\ dreq[w].zero_rows) => dreq[w].res # OK

ZeroRowsWriteNoOtherError ==
    /\ \A w \in Workers :
          (preq[w].pc = "done" /\ preq[w].zero_rows) => preq[w].res \in {OK, NotFound}
    /\ \A w \in Workers :
          (dreq[w].pc = "done" /\ dreq[w].zero_rows) => dreq[w].res \in {OK, NotFound}

\* C10: a request whose UPDATE or DELETE matched zero rows returns NotFound: never
\* success, never another status code.
C10_ZeroRowsWriteIsNotFound == ZeroRowsWriteNeverSucceeds /\ ZeroRowsWriteNoOtherError

(***************************************************************************)
(* Properties of website creation (SpecWebsite).                           *)
(***************************************************************************)
DomainsOfWebsite(website_id) == {d \in domains : d.website_id = website_id}

\* C7: after a successful create_website the new website has exactly one domain row, of
\* status Internal and named <website_id>.<main_domain>, and exactly one home page, at "/".
C7_CreateWebsiteAggregate ==
    \A w \in Workers :
        (wreq[w].pc = "done" /\ wreq[w].res = OK)
            => /\ Cardinality(DomainsOfWebsite(wreq[w].website_id)) = 1
               /\ \A d \in DomainsOfWebsite(wreq[w].website_id) :
                     d.status = Internal /\ d.domain = build_main_domain(wreq[w].website_id)
               /\ ExactlyOneHomeAtRoot(wreq[w].website_id)

\* What a create_website request has left behind.
CreatedNothing(r) ==
    \/ r.website_id = ""
    \/ /\ build_main_domain(r.website_id) \notin oidcApps
       /\ build_main_domain(r.website_id) \notin dnsRecords
       /\ \A x \in websites : x.website_id # r.website_id
       /\ DomainsOfWebsite(r.website_id) = {}

DuplicateNameIsAlreadyExists ==
    \A w \in Workers :
        (wreq[w].pc = "done" /\ wreq[w].dup) => wreq[w].res = AlreadyExists

RejectedDuplicateCreatesNothing ==
    \A w \in Workers :
        (wreq[w].pc = "done" /\ (wreq[w].dup \/ wreq[w].res = AlreadyExists))
            => CreatedNothing(wreq[w])

OnlyOwnNamesAreDuplicates ==
    \A w \in Workers :
        (wreq[w].pc = "done" /\ wreq[w].res = AlreadyExists)
            => Website_get_by_name(wreq[w].name, wreq[w].user_id) # {}

NamesUniquePerOwner ==
    \A a \in websites : \A b \in websites :
        (a.user_id = b.user_id /\ a.name = b.name) => a = b

\* C8: create_website with a name its owner already uses fails with AlreadyExists and
\* creates nothing, a name is rejected as a duplicate only against websites of the same
\* owner, and names are unique per owner in every state, concurrent creations included.
C8_DuplicateNameRejected ==
    /\ DuplicateNameIsAlreadyExists
    /\ RejectedDuplicateCreatesNothing
    /\ OnlyOwnNamesAreDuplicates
    /\ NamesUniquePerOwner

\* C9: a create_website request that has failed has left nothing behind: no website row,
\* no domain row, no OIDC application, no DNS record.
C9_CreateWebsiteAllOrNothing ==
    \A w \in Workers :
        (wreq[w].pc = "done" /\ wreq[w].res # OK) => CreatedNothing(wreq[w])

(***************************************************************************)
(* Properties of the domains of a website through both services (SpecSite).*)
(***************************************************************************)
\* The step is taken by the website RPC of worker w.
SiteStepOf(w) == wreq'[w] # wreq[w]

\* The step is taken by the domain RPC of worker w.
DomainStepOf(w) == dreq'[w] # dreq[w]

NothingRemoved ==
    /\ websites' = websites /\ domains' = domains
    /\ oidcApps' = oidcApps /\ dnsRecords' = dnsRecords /\ hostnames' = hostnames

\* C11: a write RPC invoked by a user who does not own its target has no effect: no
\* step of delete_website or remove_domain_from_website made for a user who does not
\* own the website or the domain row changes a table or removes an OIDC application,
\* a DNS record or a custom hostname, and delete_domain deletes only rows of the
\* acting user.
C11_NonOwnerWriteHasNoEffect ==
    [][\A w \in Workers :
          /\ (/\ SiteStepOf(w)
              /\ wreq'[w].op \in {"delete_website", "remove_domain_from_website"}
              /\ ~wreq'[w].owner)
                => NothingRemoved
          /\ (DomainStepOf(w) /\ dreq[w].op = "delete_domain")
                => \A d \in domains \ domains' : d.user_id = dreq[w].user_id]_vars

\* C12: no Pending row exists for a name that fails validate_domain, and
\* add_domain_to_website answers an input that fails it with InvalidArgument without
\* going on to insert.
C12_NoPendingRowForInvalidInput ==
    /\ \A d \in domains : d.status = Pending => validate_domain(d.domain) = OK
    /\ \A w \in Workers :
          (wreq[w].op = "add_domain_to_website" /\ wreq[w].invalid)
              => wreq[w].pc = "done" /\ wreq[w].res = InvalidArgument

C14_ActiveNameIsAlreadyExists ==
    /\ [](\A w \in Workers :
            /\ (dreq[w].pc = "done" /\ dreq[w].in_use) => dreq[w].res = AlreadyExists
            /\ (wreq[w].pc = "done" /\ wreq[w].in_use) => wreq[w].res = AlreadyExists)
    /\ [][\A w \in Workers :
            /\ (DomainStepOf(w) /\ dreq'[w].in_use) => domains' = domains
            /\ (SiteStepOf(w) /\ wreq'[w].in_use) => domains' = domains]_vars

\* C15: delete_domain and remove_domain_from_website never delete an Internal domain:
\* a request that reads an Internal row returns InvalidArgument at once, so it never
\* comes to the CDN calls or to the DELETE, the step that reads the row changes neither
\* the table nor the custom hostnames, and no step of either RPC removes an Internal
\* row.
C15_InternalDomainNeverDeleted ==
    /\ [](\A w \in Workers :
            /\ (dreq[w].op = "delete_domain" /\ dreq[w].domain.status = Internal)
                  => dreq[w].pc = "done" /\ dreq[w].res = InvalidArgument
            /\ (wreq[w].op = "remove_domain_from_website" /\ wreq[w].internal)
                  => wreq[w].pc = "done" /\ wreq[w].res = InvalidArgument)
    /\ [][\A w \in Workers :
            /\ (/\ DomainStepOf(w) /\ dreq'[w].op = "delete_domain"
                /\ dreq'[w].domain.status = Internal)
                  => domains' = domains /\ hostnames' = hostnames
            /\ (/\ SiteStepOf(w) /\ wreq'[w].op = "remove_domain_from_website"
                /\ wreq'[w].internal)
                  => domains' = domains /\ hostnames' = hostnames
            /\ ((DomainStepOf(w) /\ dreq[w].op = "delete_domain")
                \/ (SiteStepOf(w) /\ wreq[w].op = "remove_domain_from_website"))
                  => \A d \in domains \ domains' : d.status # Internal]_vars

\* Both RPCs have been asked to delete the Internal domain of a website that exists,
\* and the row is still there.
C15_Witness ==
    \E w \in Workers :
        /\ dreq[w].op = "delete_domain" /\ dreq[w].pc = "done"
        /\ dreq[w].domain.status = Internal /\ dreq[w].domain \in domains
        /\ wreq[w].op = "remove_domain_from_website" /\ wreq[w].pc = "done"
        /\ wreq[w].internal /\ wreq[w].res = InvalidArgument

(***************************************************************************)
(* Properties of check_domain_status and the sweep (SpecDomain).           *)
(***************************************************************************)
\* C16: check_domain_status on a Pending domain whose DNS answers satisfy neither
\* condition of the transition rule returns Ok with the row still Pending: the request
\* is done when it has decided, so it makes no create_custom_hostname call and no
\* write.
C16_RuleFailedLeavesPending ==
    \A w \in Workers :
        (dreq[w].op = "check_domain_status" /\ dreq[w].checked = "rule_failed")
            => /\ dreq[w].pc = "done" /\ dreq[w].res = OK
               /\ dreq[w].domain.status = Pending

\* C17: check_domain_status on a row that is already Active is done in the step that
\* reads it, with Ok and the Active row, so it makes no DNS lookup and no
\* create_custom_hostname call; that step writes nothing.
C17_ActiveCheckIsNoOp ==
    /\ [](\A w \in Workers :
            (/\ dreq[w].op = "check_domain_status" /\ dreq[w].checked = "no"
             /\ dreq[w].domain.status = Active)
                => dreq[w].pc = "done" /\ dreq[w].res = OK /\ ~dreq[w].failed)
    /\ [][\A w \in Workers :
            (/\ DomainStepOf(w) /\ dreq'[w].op = "check_domain_status"
             /\ dreq'[w].checked = "no" /\ dreq'[w].domain.status = Active)
                => /\ domains' = domains /\ provisioned' = provisioned
                   /\ hostnames' = hostnames]_vars

\* A check of a row that an earlier check has activated.
C17_Witness ==
    \E w \in Workers :
        /\ dreq[w].op = "check_domain_status" /\ dreq[w].pc = "done"
        /\ dreq[w].checked = "no" /\ dreq[w].res = OK
        /\ dreq[w].domain.status = Active /\ dreq[w].domain \in domains

\* C18: a failed DNS lookup or a failed create_custom_hostname call ends
\* check_domain_status with Internal in a step that writes no row, and a run of the
\* sweep that a failed lookup ends writes no row in that step either.
C18_CollaboratorFailureIsInternal ==
    /\ [](\A w \in Workers :
            dreq[w].failed => /\ dreq[w].pc = "done" /\ dreq[w].res = InternalError
                              /\ dreq[w].domain.status = Pending)
    /\ [][/\ \A w \in Workers : (DomainStepOf(w) /\ dreq'[w].failed) => domains' = domains
          /\ (sweep.pc \in {"idle", "fetch_ips", "provision"} /\ sweep'.failed)
                => domains' = domains]_vars

\* A check whose lookup or provisioning call failed, its row still Pending in the
\* table, and a run of the sweep that an error ended.
C18_Witness ==
    /\ \E w \in Workers :
          /\ dreq[w].failed /\ dreq[w].pc = "done"
          /\ dreq[w].domain \in domains /\ dreq[w].domain.status = Pending
    /\ sweep.failed

\* C19: a check never decides to activate on empty address sets: when neither the
\* candidate nor the platform target resolves to an address and the candidate has no
\* CNAME answer to the fallback domain, check_domain_status and the sweep leave the
\* domain Pending.
C19_EmptyAddressSetsDoNotActivate ==
    /\ \A w \in Workers :
          (dreq[w].obs.made /\ dreq[w].obs.empty /\ ~dreq[w].obs.cname)
              => ~dreq[w].obs.activate
    /\ (sweep.obs.made /\ sweep.obs.empty /\ ~sweep.obs.cname) => ~sweep.obs.activate

(***************************************************************************)
(* Properties of the list RPCs (SpecList).                                 *)
(***************************************************************************)
\* a and b are answers to the same list RPC with the same filter and size, a for
\* page 1 and b for page 2.
PageOneAndTwo(a, b) ==
    /\ a.pc = "done" /\ b.pc = "done" /\ a.res = OK /\ b.res = OK
    /\ a.op = b.op /\ a.filter = b.filter
    /\ a.request.is_some /\ b.request.is_some
    /\ a.request.size = b.request.size
    /\ a.request.page = 1 /\ b.request.page = 2

Matching(r) ==
    IF r.op = "list_pages" THEN Cardinality(Page_list_where(r.filter))
    ELSE Cardinality(Website_list_where(r.filter))

\* C20: on an unchanged data set and for the same filter, page 2 reports the same
\* total_elements as page 1, total_elements is the number of rows that match the
\* filter, the items of page 1 and page 2 are disjoint, limit = size and
\* offset = (page - 1) * size, and a page below 1 is answered with InvalidArgument.
C20_PagesPartitionTheList ==
    /\ \A w \in Workers :
          /\ (lreq[w].pc = "done" /\ lreq[w].request.is_some /\ lreq[w].request.page < 1)
                => lreq[w].res = InvalidArgument
          /\ (lreq[w].pc = "done" /\ lreq[w].res = OK)
                => /\ lreq[w].total_elements = Matching(lreq[w])
                   /\ lreq[w].request.is_some
                         => /\ lreq[w].limit = lreq[w].request.size
                            /\ lreq[w].offset
                                  = (lreq[w].request.page - 1) * lreq[w].request.size
    /\ \A x \in Workers : \A y \in Workers :
          PageOneAndTwo(lreq[x], lreq[y])
              => /\ lreq[x].total_elements = lreq[y].total_elements
                 /\ \A i \in DOMAIN lreq[x].items : \A j \in DOMAIN lreq[y].items :
                       lreq[x].items[i] # lreq[y].items[j]

(***************************************************************************)
(* Properties of the running service (SpecService).                        *)
(***************************************************************************)
IsPending(id) == \E d \in domains : d.domain_id = id /\ d.status = Pending

\* C21: without any call of check_domain_status, a Pending domain does not stay
\* Pending for ever: the periodic sweep of the running service activates it (or a
\* client deletes it).
C21_PendingEventuallyActive ==
    \A id \in 1..MaxDomainRows : IsPending(id) ~> ~IsPending(id)

(***************************************************************************)
(* Properties of delete_website (SpecDelete).                              *)
(***************************************************************************)
\* C22: when delete_website returns Ok for a website it found, no website, domain or
\* page row of that website id remains, and no DNS record and no custom hostname
\* remains for any domain the website had.
C22_DeleteWebsiteLeavesNothing ==
    [][\A w \in Workers :
          (/\ SiteStepOf(w) /\ wreq[w].op = "delete_website"
           /\ wreq[w].pc = "website_delete" /\ wreq'[w].res = OK)
              => /\ Website_get(wreq[w].website_id)' = {}
                 /\ \A d \in domains' : d.website_id # wreq[w].website_id
                 /\ \A x \in pages' : x.website_id # wreq[w].website_id
                 /\ \A d \in wreq[w].listed :
                       d.domain \notin dnsRecords' /\ d.domain \notin hostnames']_vars

\* C23: encoding a list of N child records (N = 0, 1, many) as an array of composites
\* and decoding it with DomainAsRelVec / PageAsRelVec gives N records equal to the
\* originals, in the same order, every field read in the declared field order; the
\* same holds for the two columns of an aggregate fetch nothing is wrong with.
C23_RoundTrip ==
    /\ freq.op = "DomainAsRelVec" => freq.ok /\ freq.domains = freq.domains_in
    /\ freq.op = "PageAsRelVec" => freq.ok /\ freq.pages = freq.pages_in
    /\ (freq.op = "get_website" /\ freq.ok /\ freq.fault = "none")
          => freq.domains = freq.domains_in /\ freq.pages = freq.pages_in

C23_Witness ==
    /\ freq.op = "DomainAsRelVec"
    /\ Len(freq.domains_in) = MaxChildren
    /\ freq.domains_in[1] # freq.domains_in[2]
    /\ freq.domains = freq.domains_in

\* C29: a decode failure of an aggregate child column (a second dimension, a field
\* oid that does not match the expected type, a malformed element) reaches the caller
\* as Internal, and no fetch answers with a domains or pages list that is shorter
\* than the child rows that were aggregated.
C29_DecodeFailureIsInternal ==
    /\ (freq.op = "get_website" /\ freq.fault # "none") => freq.res = InternalError
    /\ (freq.op = "get_website" /\ freq.res = OK)
          => /\ Len(freq.domains) = Len(freq.domains_in)
             /\ Len(freq.pages) = Len(freq.pages_in)


\* C24: check_domain_status and the periodic sweep apply the same transition rule:
\* for every Pending domain and every DNS state (the answers for the candidate and
\* for the platform target), both reach the same decision to activate or not.
C24_SameRuleOnBothPaths ==
    \A d \in domains :
        d.status = Pending =>
            \A dl \in DnsLookupResponse(d.domain), tl \in DnsLookupResponse(FallbackDomain) :
                points_to_fallback(d.domain, dl, tl)
                    = root_ips_equal(sort_unstable(fetch_ips(tl)), dl)


\* C25: promoting a home page is one logical operation: with one request at a time,
\* a create_page or update_page with is_home_page = true that returns an error leaves
\* the home page the website had, still with is_home_page = true and path "/".
C25_FailedPromotionKeepsHomePage ==
    \A w \in Workers :
        (/\ preq[w].pc = "done"
         /\ preq[w].res # OK
         /\ preq[w].is_home_page = Some(TRUE)
         /\ preq[w].had_home)
            => \E p \in pages :
                  /\ p.website_id = preq[w].website_id
                  /\ p.is_home_page
                  /\ p.path = HOME_PAGE_PATH


\* C30: after any sequence of create_page, update_page and delete_page, one request
\* at a time, delete_page has never deleted a page whose is_home_page flag is true:
\* no step removes a row that is a home page.
C30_HomePageNeverDeleted ==
    [][\A p \in pages : p.is_home_page => \E q \in pages' : q.page_id = p.page_id]_vars


\* C26: a check_domain_status call that moves a domain to Active makes exactly one
\* create_custom_hostname call for that name, Active is written only after the call
\* has returned successfully, and no row is Active whose provisioning was never
\* requested.
C26_ProvisionedBeforeActive ==
    /\ [](\A d \in domains : d.status = Active => provisioned[d.domain_id] # "never")
    /\ [][\A w \in Workers :
            (DomainStepOf(w) /\ dreq[w].op = "check_domain_status")
                => /\ dreq'[w].pc = "update"
                        => /\ dreq[w].pc = "provision"
                           /\ provisioned'[dreq[w].domain.domain_id] # "never"
                           /\ dreq[w].domain.domain \in hostnames'
                   /\ dreq[w].pc # "provision"
                        => provisioned' = provisioned /\ hostnames' = hostnames
                   /\ dreq[w].pc = "update" => dreq'[w].pc = "done"
                   /\ domains' # domains
                        => /\ dreq[w].pc = "update"
                           /\ dreq'[w].res = OK
                           /\ provisioned[dreq[w].domain.domain_id] # "never"]_vars

\* A check that has activated its row: the row is Active in the table and
\* create_custom_hostname has succeeded for it exactly once.
C26_Witness ==
    \E w \in Workers :
        /\ dreq[w].op = "check_domain_status" /\ dreq[w].pc = "done"
        /\ dreq[w].checked = "rule_held" /\ dreq[w].res = OK
        /\ dreq[w].domain.status = Active /\ dreq[w].domain \in domains
        /\ provisioned[dreq[w].domain.domain_id] = "once"
        /\ dreq[w].domain.domain \in hostnames


\* C27: for a domain that is not Internal, delete_domain and
\* remove_domain_from_website delete the row only after every custom hostname of that
\* name has been deleted at the CDN (with one request at a time: no custom hostname of
\* the name exists when the row goes); and when listing or a deletion fails, the
\* request ends with an error in a step that deletes no row.
C27_RowDeletedAfterHostnames ==
    [][\A w \in Workers :
          /\ (DomainStepOf(w) /\ dreq[w].op = "delete_domain" /\ dreq[w].pc = "delete")
                => dreq[w].domain.domain \notin hostnames
          /\ (SiteStepOf(w) /\ wreq[w].op = "remove_domain_from_website"
                  /\ wreq[w].pc = "domain_delete")
                => wreq[w].input \notin hostnames
          /\ (DomainStepOf(w) /\ dreq[w].op = "delete_domain"
                  /\ dreq[w].pc = "custom_hostnames" /\ dreq'[w].pc = "done")
                => dreq'[w].res # OK /\ domains' = domains
          /\ (SiteStepOf(w) /\ wreq[w].op = "remove_domain_from_website"
                  /\ wreq[w].pc = "custom_hostnames" /\ wreq'[w].pc = "done")
                => wreq'[w].res # OK /\ domains' = domains]_vars


\* C28: the address comparison used for activation is a symmetric, order-independent
\* set equality: for the answers a of every Pending domain and the answers b of the
\* platform target, has_same_destination_ips(a, b) = has_same_destination_ips(b, a),
\* and it is true exactly when the answer data of a and of b are the same set.
C28_SameIpsIsSetEquality ==
    \A d \in domains :
        d.status = Pending =>
            \A a \in DnsLookupResponse(d.domain), b \in DnsLookupResponse(FallbackDomain) :
                /\ has_same_destination_ips(a, b) = has_same_destination_ips(b, a)
                /\ has_same_destination_ips(a, b) = (AnswerData(a) = AnswerData(b))

====
